---- MODULE Spec2Model ----
(***************************************************************************)
(* SwarmVisualization (frontend/src/components/TaskHistory.jsx, 205-683):  *)
(* the agent registry (agentMeshesRef), the tracked transaction edges      *)
(* (transactionEdgesRef), the selection (selectedAgent) and the frame loop *)
(* (animate), driven by snapshots pushed by the transport hook.            *)
(*                                                                         *)
(* Numbers: times are milliseconds (Date.now()).  Opacities and emissive   *)
(* intensities are kept exact as integers: an edge's opacity is stored in  *)
(* units of 1/maxAge (1 - age/maxAge  ==>  maxAge - age), an agent's       *)
(* emissive intensity and ring opacity in tenths.  A position is the polar *)
(* pair the code feeds to cos/sin: the ring radius and the angle as a      *)
(* reduced fraction num/den of a full turn.                                *)
(***************************************************************************)
EXTENDS Integers, Sequences, FiniteSets, TLC

\* ------------------------------------------------------------------ bounds
MaxTime == 4500
TimeStep == 1500
MaxEdges == 3
MaxTx == 2
MaxScenes == 2
MaxFundings == 3
MaxRemovals == 2
MaxMounts == 2
MaxRequests == 2
MaxToasts == 2

\* ------------------------------------------------------- program constants
maxAge == 3000
CoordinatorRadius == 15
SolverRadius == 25
SelectedIntensity == 8
MarkerSteps == 50
ReconnectDelay == 3000
ToastDelay == 3000

\* -------------------------------------------------------------- the inputs
CoordinatorIds == {"c1", "c2"}
SolverIds == {"s1", "s2"}
AgentIds == CoordinatorIds \cup SolverIds

\* null (no snapshot yet, no selection, a null entry of a role list) and an
\* absent agents field are records of their own, distinct from every value.
NoData == [null |-> TRUE]
NoSel == [null |-> TRUE]
Null == [null |-> TRUE]
Missing == [undefined |-> TRUE]
NoHit == "miss"

\* The widths the window takes.
WideWindow == "1200px"
NarrowWindow == "800px"
Widths == {WideWindow, NarrowWindow}
NoClick == "none"

RoleOf(id) == IF id \in CoordinatorIds THEN "coordinator" ELSE "solver"

\* An AgentSnapshot as the backend sends it.
Agent(id, tasks) == [agent_id |-> id, role |-> RoleOf(id), active_tasks |-> tasks]

\* AgentSnapshots that carry or lack the active-task count, the status and
\* the reputation.
NoFields == [f \in {} |-> 0]
TaskFields == {NoFields, "active_tasks" :> 0, "active_tasks" :> 1}
StatusFields == {NoFields, "status" :> "idle", "status" :> "working"}
Reputations == {0, 50, 150, 250}
ReputationFields == {NoFields} \cup {"reputation" :> r : r \in Reputations}
AgentVariants(id) ==
  {[agent_id |-> id, role |-> RoleOf(id)] @@ tasks @@ status @@ reputation :
     tasks \in TaskFields, status \in StatusFields, reputation \in ReputationFields}

\* The orderings of the subsets of a set of identifiers (a role group).
Orderings(S) ==
  {<<>>} \cup {<<a>> : a \in S} \cup {q \in S \X S : q[1] # q[2]}

\* The role lists of a well-formed snapshot.  busy is the set of agents
\* with one active task; the others have none.
RoleList(ids, busy) ==
  [i \in 1..Len(ids) |-> Agent(ids[i], IF ids[i] \in busy THEN 1 ELSE 0)]

\* notIterable names the role fields whose value is not an array (an object
\* the spread [...x] cannot iterate); the sequence then stands for nothing.
Roster(cs, ss, busy) ==
  [coordinators |-> RoleList(cs, busy), solvers |-> RoleList(ss, busy), notIterable |-> {}]

\* Rosters that grow, shrink and reorder; c1 works or idles.
ValidAgents ==
  {Roster(cs, ss, busy) :
     cs \in Orderings(CoordinatorIds), ss \in Orderings({"s1"}), busy \in {{}, {"c1"}}}

\* Structurally invalid rosters: a malformed entry in a role list, a role
\* list that is not a list.
InvalidAgents ==
  { [coordinators |-> <<Agent("c1", 0), Null>>, solvers |-> <<Agent("s1", 0)>>, notIterable |-> {}],
    [coordinators |-> <<Agent("c2", 0)>>, solvers |-> <<Null, Agent("s1", 0)>>, notIterable |-> {}],
    [coordinators |-> <<>>, solvers |-> <<Agent("s1", 0)>>, notIterable |-> {"coordinators"}] }

\* TransactionEvents: timestamps are seconds.
AnnouncementC1 == [from |-> "c1", msg_type |-> "task_announcement", timestamp |-> 100]

Events ==
  { AnnouncementC1,
    [from |-> "s1", msg_type |-> "task_bid", timestamp |-> 100],
    [from |-> "c1", msg_type |-> "solution_submission", timestamp |-> 101] }

TxLists == UNION {[1..n -> Events] : n \in 0..MaxTx}

\* The snapshots of the roster runs: every roster with an empty event list,
\* and two snapshots that carry an announcement.
AgentSnapshots ==
  {[agents |-> a, transactions |-> <<>>] : a \in ValidAgents \cup InvalidAgents \cup {Missing}}
    \cup {[agents |-> a, transactions |-> <<AnnouncementC1>>] :
            a \in {Roster(<<"c1", "c2">>, <<"s1">>, {}), Missing}}

\* The snapshots of the event runs: a few rosters, every event list.
EdgeRosters ==
  { Roster(<<"c1">>, <<"s1", "s2">>, {}),
    Roster(<<"c1", "c2">>, <<"s1">>, {}),
    Missing }

EdgeSnapshots == {[agents |-> a, transactions |-> t] : a \in EdgeRosters, t \in TxLists}

\* --------------------------------------------------------------- the state
VARIABLES
  swarmAgents,       \* swarmData?.agents of the swarmData prop (null before the first snapshot)
  agentMeshes,       \* agentMeshesRef.current: agent_id -> mesh
  meshCount,         \* how many agent meshes have been constructed (new THREE.Mesh)
  transactionEdges,  \* transactionEdgesRef.current
  sceneLines,        \* the tube meshes in the scene (scene.add / scene.remove), by edge identity
  edgeSets,          \* per (from, txTimestamp): how many times its edges were created
  selectedAgent,     \* the selectedAgent state: an AgentSnapshot, or null
  selSame,           \* selectedAgent is the very object held in its mesh's userData.agentData
  picked,            \* what the last click's ray hit: an agent's mesh, nothing, or no click yet
  now,               \* Date.now()
  mounted,           \* the component is mounted (between the scene effect and its cleanup)
  sceneRef,          \* sceneRef.current: 0 while unset, else the number of the scene stored last
  listeners,         \* the registered event listeners: <<event, number of the scene of the closure>>
  frameLoops,        \* the scenes whose animate callback is pending (requestAnimationFrame)
  markers,           \* the pending animateParticle callbacks: edge identity -> additions of 0.02 made
  undisposed,        \* the kinds of GPU resources constructed and not disposed of
  sceneAgents,       \* the agent meshes in the scene sceneRef.current holds (scene.add), by obj number
  uncaught,          \* the effect an error escaped from ("none" while there is none)
  canvases,          \* the canvases in the document: number of the scene -> width of its renderer
  innerWidth,        \* window.innerWidth
  removals,          \* the remove-agent requests in flight (agent ids, oldest first)
  \* useWebSocket
  hookMounted,       \* the effect of the hook has run and its cleanup has not
  swarmData,         \* the swarmData state the hook exposes
  isConnected,       \* the isConnected state the hook exposes
  sockets,           \* the WebSockets not yet closed: socket number -> readyState
  wsRef,             \* wsRef.current: the number of a socket, 0 while null
  timers,            \* the pending reconnect timers: timer id -> milliseconds left
  reconnectTimeoutRef, \* reconnectTimeoutRef.current: a timer id, 0 while null
  hookMounts,        \* how many times the effect of the hook has run
  \* ControlPanel
  isPaused,          \* the isPaused state
  showTaskForm,      \* the showTaskForm state
  showAgentForm,     \* the showAgentForm state
  minInterval,       \* the minInterval state
  maxInterval,       \* the maxInterval state
  message,           \* the message state (the toast)
  toastTimers,       \* the pending clear-timers of showMessage: milliseconds left of each
  requests,          \* the control requests in flight, oldest first
  \* utils/config
  envWsUrl,          \* import.meta.env.VITE_WS_URL ("" while not set)
  envApiUrl,         \* import.meta.env.VITE_API_URL ("" while not set)
  location,          \* window.location: protocol and host
  WS_URL,            \* the exported WS_URL ("" until the module is evaluated)
  API_BASE,          \* the exported API_BASE
  \* WalletConnect
  kasware,           \* window.kasware is there (the wallet extension has injected it)
  addressPending,    \* the fetch of /api/address made on mount has not settled
  coordinatorAddress, \* the coordinatorAddress state ("" for null)
  walletAddress,     \* the walletAddress state ("" for null)
  balancePending,    \* connectWallet is waiting for kasware.getBalance()
  isFunding,         \* the isFunding state
  status,            \* the status state
  pendingSends,      \* the kasware.sendKaspa calls that have not settled
  sends,             \* how many times kasware.sendKaspa was called
  refreshTimers,     \* the pending "Refresh balances" timeouts
  isWalletDetected,  \* the isWalletDetected state
  polling,           \* the 500 ms interval of "Poll for wallet injection" is set
  detectTimeout      \* the 5 s timeout of "Poll for wallet injection" is pending

\* The lifecycle state of the scene.
lifeVars == <<sceneRef, listeners, frameLoops, undisposed, uncaught, canvases, innerWidth, sceneAgents>>

\* The state of SwarmVisualization, of useWebSocket and of ControlPanel.
sceneVars == <<swarmAgents, agentMeshes, meshCount, transactionEdges, sceneLines, edgeSets, selectedAgent, selSame, picked, now, mounted, lifeVars, markers, removals>>

hookVars == <<hookMounted, swarmData, isConnected, sockets, wsRef, timers, reconnectTimeoutRef, hookMounts>>

panelVars == <<isPaused, showTaskForm, showAgentForm, minInterval, maxInterval, message, toastTimers, requests>>

\* What the scene effects, the frame loop and handleClick leave alone.
\* The configuration module.
configVars == <<envWsUrl, envApiUrl, location, WS_URL, API_BASE>>

walletVars == <<kasware, addressPending, coordinatorAddress, walletAddress, balancePending, isFunding, status, pendingSends, sends, refreshTimers, isWalletDetected, polling, detectTimeout>>

appVars == <<configVars, walletVars>>

restVars == <<removals, hookVars, panelVars, appVars>>

vars == <<sceneVars, hookVars, panelVars, appVars>>

\* ------------------------------------------------------------ pure helpers
RECURSIVE GCD(_, _)
GCD(a, b) == IF b = 0 THEN a ELSE GCD(b, a % b)

\* findIndex(a => a.agent_id === agentId): the 0-based index of the first
\* entry with that identifier, -1 when there is none.  The callback throws on
\* a null entry; the entry looked for always precedes any entry not yet
\* iterated, so a null entry behind it is never reached.
RECURSIVE FindIndexFrom(_, _, _)
FindIndexFrom(list, id, k) ==
  IF k > Len(list) THEN -1
  ELSE IF list[k] # Null /\ list[k].agent_id = id THEN k - 1
  ELSE FindIndexFrom(list, id, k + 1)

FindIndex(list, id) == FindIndexFrom(list, id, 1)

\* The angle (idx / n) * 2 PI + offsetEighths * PI / 4 as a reduced fraction
\* of a full turn, taken modulo one turn (cos and sin are 2 PI periodic).
Angle(idx, n, offsetEighths) ==
  LET raw == (8 * idx + n * offsetEighths) % (8 * n)
      g == GCD(8 * n, raw)
  IN  [num |-> raw \div g, den |-> (8 * n) \div g]

\* AgentPosition dividing the index by the number of all agents of the
\* snapshot instead of the size of the agent's role group.
AgentPositionAllAgents(agent, coordinators, solvers) ==
  LET isCoord == agent.role = "coordinator"
      radius == IF isCoord THEN CoordinatorRadius ELSE SolverRadius
      angleOffset == IF isCoord THEN 0 ELSE 1
      agentIndex == IF isCoord THEN FindIndex(coordinators, agent.agent_id)
                    ELSE FindIndex(solvers, agent.agent_id)
  IN  [radius |-> radius,
       angle |-> Angle(agentIndex, Len(coordinators) + Len(solvers), angleOffset)]

\* "Position agents": the ring by role, the angle by the index in the role
\* group of the snapshot being reconciled; solvers are offset by PI / 4.
AgentPosition(agent, coordinators, solvers) ==
  LET isCoord == agent.role = "coordinator"
      radius == IF isCoord THEN CoordinatorRadius ELSE SolverRadius
      agentsInRole == IF isCoord THEN Len(coordinators) ELSE Len(solvers)
      angleOffset == IF isCoord THEN 0 ELSE 1
      agentIndex == IF isCoord THEN FindIndex(coordinators, agent.agent_id)
                    ELSE FindIndex(solvers, agent.agent_id)
  IN  [radius |-> radius, angle |-> Angle(agentIndex, agentsInRole, angleOffset)]

\* sin(Date.now() * 0.005) and sin(Date.now() * 0.003) take values in [-1, 1];
\* the pulse is kept at the centre of its range.
Wave(t) == 0

\* agent.active_tasks > 0 || agent.status === 'working': a field the
\* snapshot does not carry reads undefined, and undefined > 0 and
\* undefined === 'working' are both false.
IsActive(agent) ==
  \/ "active_tasks" \in DOMAIN agent /\ agent.active_tasks > 0
  \/ "status" \in DOMAIN agent /\ agent.status = "working"

MathMax(a, b) == IF a >= b THEN a ELSE b
MathMin(a, b) == IF a <= b THEN a ELSE b

\* reputationScale, in hundredths: agent.reputation / 100 clamped to
\* [0.8, 2.0] when agent.reputation is truthy (present and not 0), else 1.0.
ReputationScale(agent) ==
  IF "reputation" \in DOMAIN agent /\ agent.reputation # 0
    THEN MathMax(80, MathMin(200, agent.reputation))
  ELSE 100

IsSelected(sel, agentId) == sel # NoSel /\ sel.agent_id = agentId

\* Visuals with the activity read from the active-task count alone.
VisualsTasksOnly(agent, sel, t) ==
  LET active == "active_tasks" \in DOMAIN agent /\ agent.active_tasks > 0
      scale == IF active
                 THEN ((100 + 15 * Wave(t)) * ReputationScale(agent)) \div 100
               ELSE ReputationScale(agent)
  IN  IF IsSelected(sel, agent.agent_id)
        THEN [emissive |-> SelectedIntensity, ring |-> SelectedIntensity, scale |-> scale]
      ELSE IF active
        THEN [emissive |-> 4 + 2 * Wave(t), ring |-> 3 + 2 * Wave(t), scale |-> scale]
      ELSE [emissive |-> 1, ring |-> 0, scale |-> scale]

\* The activity visuals followed by the selected highlight: the emissive
\* intensity and the ring opacity, in tenths, and the scale of the mesh, in
\* hundredths (the pulse of the scale applies to active agents only).
Visuals(agent, sel, t) ==
  LET scale == IF IsActive(agent)
                 THEN ((100 + 15 * Wave(t)) * ReputationScale(agent)) \div 100
               ELSE ReputationScale(agent)
  IN  IF IsSelected(sel, agent.agent_id)
        THEN [emissive |-> SelectedIntensity, ring |-> SelectedIntensity, scale |-> scale]
      ELSE IF IsActive(agent)
        THEN [emissive |-> 4 + 2 * Wave(t), ring |-> 3 + 2 * Wave(t), scale |-> scale]
      ELSE [emissive |-> 1, ring |-> 0, scale |-> scale]

\* A freshly constructed mesh: obj numbers the meshes in construction order,
\* which is also the key order of agentMeshesRef.current.
NewMesh(agent, coordinators, solvers, count) ==
  [obj |-> count + 1,
   position |-> AgentPosition(agent, coordinators, solvers),
   role |-> agent.role,
   agentData |-> agent,
   emissive |-> 3,
   ring |-> 0,
   scale |-> 100]

\* ReconcileAgent without the "if (!mesh)" guard: a mesh is constructed and
\* registered on every pass.
ReconcileAgentRecreate(st, agent, coordinators, solvers, sel, t) ==
  LET agentId == agent.agent_id
      vis == Visuals(agent, sel, t)
      mesh == NewMesh(agent, coordinators, solvers, st.count)
      updated == [mesh EXCEPT !.agentData = agent, !.emissive = vis.emissive, !.ring = vis.ring,
                              !.scale = vis.scale]
  IN  [meshes |-> [id \in DOMAIN st.meshes \cup {agentId} |->
                     IF id = agentId THEN updated ELSE st.meshes[id]],
       count |-> st.count + 1,
       threw |-> FALSE]

\* ReconcileAgent with "Position agents" moved out of the creation branch:
\* the position is recomputed from the roster of every pass.
ReconcileAgentReposition(st, agent, coordinators, solvers, sel, t) ==
  LET agentId == agent.agent_id
      fresh == agentId \notin DOMAIN st.meshes
      mesh == IF fresh THEN NewMesh(agent, coordinators, solvers, st.count)
              ELSE st.meshes[agentId]
      vis == Visuals(agent, sel, t)
      updated == [mesh EXCEPT !.agentData = agent, !.emissive = vis.emissive, !.ring = vis.ring,
                              !.scale = vis.scale,
                              !.position = AgentPosition(agent, coordinators, solvers)]
  IN  [meshes |-> [id \in DOMAIN st.meshes \cup {agentId} |->
                     IF id = agentId THEN updated ELSE st.meshes[id]],
       count |-> IF fresh THEN st.count + 1 ELSE st.count,
       threw |-> FALSE]

\* One pass of allAgents.forEach: create the mesh on the first sighting,
\* store the agent data, set the visuals.
ReconcileAgent(st, agent, coordinators, solvers, sel, t) ==
  LET agentId == agent.agent_id
      fresh == agentId \notin DOMAIN st.meshes
      mesh == IF fresh THEN NewMesh(agent, coordinators, solvers, st.count)
              ELSE st.meshes[agentId]
      vis == Visuals(agent, sel, t)
      updated == [mesh EXCEPT !.agentData = agent, !.emissive = vis.emissive, !.ring = vis.ring,
                              !.scale = vis.scale]
  IN  [meshes |-> [id \in DOMAIN st.meshes \cup {agentId} |->
                     IF id = agentId THEN updated ELSE st.meshes[id]],
       count |-> IF fresh THEN st.count + 1 ELSE st.count,
       threw |-> FALSE]

\* allAgents.forEach from entry k on; reading agent.agent_id of a null entry
\* throws and abandons the rest of the pass.
RECURSIVE ReconcileFrom(_, _, _, _, _, _, _)
ReconcileFrom(st, allAgents, k, coordinators, solvers, sel, t) ==
  IF k > Len(allAgents) THEN st
  ELSE IF allAgents[k] = Null THEN [st EXCEPT !.threw = TRUE]
  ELSE ReconcileFrom(ReconcileAgent(st, allAgents[k], coordinators, solvers, sel, t),
                     allAgents, k + 1, coordinators, solvers, sel, t)

\* The "Update agents" effect.  sceneRef.current is set while mounted.
Reconcile(meshes, count, agents, sel, t) ==
  LET st == [meshes |-> meshes, count |-> count, threw |-> FALSE]
  IN  IF agents = NoData \/ agents = Missing THEN st
      ELSE IF agents.notIterable # {}
        THEN [st EXCEPT !.threw = TRUE]
      ELSE ReconcileFrom(st, agents.coordinators \o agents.solvers, 1,
                         agents.coordinators, agents.solvers, sel, t)

\* The identifiers a pass has stored fresh agent data for: the entries of
\* allAgents before the first null entry (none when the spread throws).
RECURSIVE ProcessedFrom(_, _)
ProcessedFrom(allAgents, k) ==
  IF k > Len(allAgents) \/ allAgents[k] = Null THEN {}
  ELSE {allAgents[k].agent_id} \cup ProcessedFrom(allAgents, k + 1)

ProcessedIds(agents) ==
  IF agents = NoData \/ agents = Missing THEN {}
  ELSE IF agents.notIterable # {} THEN {}
  ELSE ProcessedFrom(agents.coordinators \o agents.solvers, 1)

\* ------------------------------------------------------- transaction edges
TxKey(tx) == <<tx.from, tx.timestamp * 1000>>

KeySet == {TxKey(tx) : tx \in Events}

\* "Check if we've already processed this transaction": a tracked edge with
\* the same txTimestamp and sender.
AlreadyExists(edges, tx) ==
  \E i \in 1..Len(edges) :
    edges[i].txTimestamp = tx.timestamp * 1000 /\ edges[i].from = tx.from

Color(msg_type) ==
  CASE msg_type = "task_announcement" -> "0x00ff88"
    [] msg_type = "task_bid" -> "0x0088ff"
    [] msg_type = "solution_submission" -> "0xff00ff"
    [] OTHER -> "0xffffff"

\* Object.values(agentMeshesRef.current): the identifiers in key order, which
\* is the order in which the meshes were constructed.
RECURSIVE ObjectValues(_, _)
ObjectValues(meshes, S) ==
  IF S = {} THEN <<>>
  ELSE LET first == CHOOSE id \in S : \A o \in S : meshes[id].obj <= meshes[o].obj
       IN  <<first>> \o ObjectValues(meshes, S \ {first})

\* TargetMeshes without the "m !== fromMesh" test.
TargetMeshesWithSender(meshes, tx) ==
  LET all == ObjectValues(meshes, DOMAIN meshes)
      IsTarget(id) ==
        IF tx.msg_type = "task_announcement"
          THEN meshes[id].agentData.role = "solver"
          ELSE meshes[id].agentData.role = "coordinator"
  IN  SelectSeq(all, IsTarget)

\* The target meshes of an event: every mesh whose agent data says solver for
\* a task_announcement, otherwise every mesh whose agent data says coordinator
\* except the sender's mesh.
TargetMeshes(meshes, tx) ==
  LET all == ObjectValues(meshes, DOMAIN meshes)
      IsTarget(id) ==
        IF tx.msg_type = "task_announcement"
          THEN meshes[id].agentData.role = "solver"
          ELSE meshes[id].agentData.role = "coordinator" /\ id # tx.from
  IN  SelectSeq(all, IsTarget)

\* The tracked record of one edge; to is the mesh its curve ends at.  The
\* tube material starts at opacity 0.7.
NewEdge(tx, toId, t) ==
  [from |-> tx.from,
   to |-> toId,
   txTimestamp |-> tx.timestamp * 1000,
   timestamp |-> t,
   color |-> Color(tx.msg_type),
   opacity |-> (7 * maxAge) \div 10]

\* What tells one tube mesh from another: an edge is created once per
\* (event, target) while the event is untracked, and re-creating it takes a
\* later Date.now().
EdgeId(edge) == <<edge.from, edge.to, edge.txTimestamp, edge.timestamp>>

\* IngestTx that remembers an event it could not draw: an event without a
\* sender mesh or without targets leaves a tracking record behind.
IngestTxTracking(st, tx, meshes, t) ==
  IF AlreadyExists(st.edges, tx) THEN st
  ELSE IF tx.from \notin DOMAIN meshes \/ TargetMeshes(meshes, tx) = <<>>
    THEN [st EXCEPT !.edges = @ \o <<NewEdge(tx, tx.from, t)>>]
  ELSE LET targets == TargetMeshes(meshes, tx)
           created == [i \in 1..Len(targets) |-> NewEdge(tx, targets[i], t)]
       IN  [edges |-> st.edges \o created,
            scene |-> st.scene \cup {EdgeId(created[i]) : i \in 1..Len(created)},
            sets |-> [st.sets EXCEPT ![TxKey(tx)] = @ + 1]]

\* One pass of transactions.forEach.
IngestTx(st, tx, meshes, t) ==
  IF AlreadyExists(st.edges, tx) THEN st
  ELSE IF tx.from \notin DOMAIN meshes THEN st
  ELSE LET targets == TargetMeshes(meshes, tx)
           created == [i \in 1..Len(targets) |-> NewEdge(tx, targets[i], t)]
       IN  [edges |-> st.edges \o created,
            scene |-> st.scene \cup {EdgeId(created[i]) : i \in 1..Len(created)},
            sets |-> IF Len(targets) = 0 THEN st.sets
                     ELSE [st.sets EXCEPT ![TxKey(tx)] = @ + 1]]

RECURSIVE IngestFrom(_, _, _, _, _)
IngestFrom(st, transactions, k, meshes, t) ==
  IF k > Len(transactions) THEN st
  ELSE IngestFrom(IngestTx(st, transactions[k], meshes, t), transactions, k + 1, meshes, t)

\* Ingest that first drops the tracked edges that are past their TTL.
IngestPruning(edges, scene, sets, transactions, meshes, t) ==
  LET kept == SelectSeq(edges, LAMBDA edge : t - edge.timestamp <= maxAge)
  IN  IngestFrom([edges |-> kept,
                  scene |-> {EdgeId(kept[i]) : i \in 1..Len(kept)},
                  sets |-> sets], transactions, 1, meshes, t)

\* The "Update transaction edges" effect.
Ingest(edges, scene, sets, transactions, meshes, t) ==
  IngestFrom([edges |-> edges, scene |-> scene, sets |-> sets], transactions, 1, meshes, t)

\* ----------------------------------------------------------- the frame loop
RemoveAt(list, k) == SubSeq(list, 1, k - 1) \o SubSeq(list, k + 1, Len(list))

\* transactionEdgesRef.current.forEach((edge, index) => ...) with the splice
\* inside it: forEach visits the indices 0 .. (initial length - 1) that still
\* exist, so after a splice the entry that moved into the freed index is not
\* visited in this pass.  k is the 1-based index being visited.
\* SweepEdge with the expiry test written age >= maxAge.
SweepEdgeAtTTL(st, k, t) ==
  LET edge == st.edges[k]
      age == t - edge.timestamp
  IN  IF age >= maxAge
        THEN [edges |-> RemoveAt(st.edges, k), scene |-> st.scene \ {EdgeId(edge)}]
        ELSE [st EXCEPT !.edges[k].opacity = maxAge - age]

SweepEdge(st, k, t) ==
  LET edge == st.edges[k]
      age == t - edge.timestamp
  IN  IF age > maxAge
        THEN [edges |-> RemoveAt(st.edges, k), scene |-> st.scene \ {EdgeId(edge)}]
        ELSE [st EXCEPT !.edges[k].opacity = maxAge - age]

RECURSIVE SweepFrom(_, _, _)
SweepFrom(st, k, t) ==
  IF k > Len(st.edges) THEN st
  ELSE SweepFrom(SweepEdge(st, k, t), k + 1, t)

Sweep(edges, scene, t) == SweepFrom([edges |-> edges, scene |-> scene], 1, t)

\* ------------------------------------------------------ the scene lifecycle
\* The GPU resources constructed with the renderer, with one agent mesh
\* (sphere, ring, label) and with one edge (tube, traveling marker).
RendererResources == {"renderer"}
AgentResources ==
  {"sphereGeometry", "sphereMaterial", "ringGeometry", "ringMaterial", "labelTexture", "labelMaterial"}
EdgeResources == {"tubeGeometry", "tubeMaterial", "markerGeometry", "markerMaterial"}

\* The cleanup returned by the scene effect, closed over the scene n of its
\* run: cancelAnimationFrame(animationId), where animationId is the request
\* made at the top of the last frame, and the two removeEventListener calls.
\* It disposes of nothing and leaves the refs as they are.
CleanupListeners(ls, n) == ls \ {<<"resize", n>>, <<"click", n>>}

CleanupLoops(loops, n) == loops \ {n}

\* The canvas of scene n leaves the document: the cleanup takes it out of
\* the container (containerRef.current is still set when the cleanup of a
\* strict-mode remount runs), or the container leaves with the unmounted
\* tree.
CleanupCanvases(cs, n) == [k \in DOMAIN cs \ {n} |-> cs[k]]

\* The lifecycle after the effects of a commit: an error that escapes an
\* effect unmounts the tree, which runs the cleanup of the scene effect;
\* created are the resources the effects constructed.
LifeAfterEffects(threw, effect, created) ==
  /\ sceneRef' = sceneRef
  /\ listeners' = (IF threw THEN CleanupListeners(listeners, sceneRef) ELSE listeners)
  /\ frameLoops' = (IF threw THEN CleanupLoops(frameLoops, sceneRef) ELSE frameLoops)
  /\ undisposed' = undisposed \cup created
  /\ sceneAgents' = sceneAgents \cup ((meshCount + 1)..meshCount')
  /\ uncaught' = (IF threw THEN effect ELSE uncaught)
  /\ canvases' = (IF threw THEN CleanupCanvases(canvases, sceneRef) ELSE canvases)
  /\ innerWidth' = innerWidth

\* animateParticle() is called once for every edge created: progress goes
\* from 0 to 0.02 and the next call is requested.
StartMarkers(ms, before, after) ==
  LET created == {EdgeId(after[i]) : i \in (Len(before) + 1)..Len(after)}
  IN  [id \in DOMAIN ms \cup created |-> IF id \in DOMAIN ms THEN ms[id] ELSE 1]

\* The traveling markers in the scene: scene.add(particle) with the tube,
\* scene.remove(edge.particles) with the tube in the sweep, and
\* scene.remove(particle) when its animation ends.
SceneMarkers == sceneLines \cap DOMAIN markers

\* ----------------------------------------------------------- WalletConnect
\* null, as the tests !coordinatorAddress and !walletAddress see it.
NoAddress == ""

\* WalletConnect after its mount: the mount effect has asked for the
\* coordinator address; the wallet extension has not injected itself yet, so
\* "Poll for wallet injection" has set its interval and its timeout.
InitWallet ==
  /\ kasware = FALSE
  /\ addressPending = TRUE
  /\ coordinatorAddress = NoAddress
  /\ walletAddress = NoAddress
  /\ balancePending = FALSE
  /\ isFunding = FALSE
  /\ status = ""
  /\ pendingSends = 0
  /\ sends = 0
  /\ refreshTimers = 0
  /\ isWalletDetected = FALSE
  /\ polling = TRUE
  /\ detectTimeout = TRUE

\* The wallet extension injects window.kasware.
InjectWallet ==
  /\ ~kasware
  /\ kasware' = TRUE
  /\ UNCHANGED <<sceneVars, hookVars, panelVars, configVars, isWalletDetected, polling, detectTimeout, addressPending, coordinatorAddress, walletAddress, balancePending, isFunding, status, pendingSends, sends, refreshTimers>>

\* The interval of "Poll for wallet injection" ticks: checkWallet, and the
\* interval is cleared once the wallet is found.
checkWallet ==
  /\ polling
  /\ polling' = ~kasware
  /\ isWalletDetected' = (isWalletDetected \/ kasware)
  /\ status' = (IF kasware THEN "" ELSE status)
  /\ UNCHANGED <<sceneVars, hookVars, panelVars, configVars, detectTimeout, kasware, addressPending, coordinatorAddress, walletAddress, balancePending, isFunding, pendingSends, sends, refreshTimers>>

\* The timeout of "Poll for wallet injection" fires: the interval is cleared
\* and a missing wallet is reported.
DetectionTimeout ==
  /\ detectTimeout
  /\ detectTimeout' = FALSE
  /\ polling' = FALSE
  /\ status' = (IF ~kasware THEN "Wallet not detected." ELSE status)
  /\ UNCHANGED <<sceneVars, hookVars, panelVars, configVars, isWalletDetected, kasware, addressPending, coordinatorAddress, walletAddress, balancePending, isFunding, pendingSends, sends, refreshTimers>>

\* "Fetch Coordinator Address on mount" settles: data.address is stored, or
\* the failure is logged (a body without address stores undefined).
AddressSettled(ok) ==
  /\ addressPending
  /\ addressPending' = FALSE
  /\ coordinatorAddress' = (IF ok THEN "kaspa:coordinator" ELSE NoAddress)
  /\ UNCHANGED <<sceneVars, hookVars, panelVars, configVars, isWalletDetected, polling, detectTimeout, kasware, walletAddress, balancePending, isFunding, status, pendingSends, sends, refreshTimers>>

\* connectWallet, up to its second await: the connect button is rendered
\* while walletAddress is null; without window.kasware the handler returns
\* after the dialog; requestAccounts gives accounts, an empty list, or
\* rejects.
connectWallet(outcome) ==
  /\ walletAddress = NoAddress
  /\ IF ~kasware \/ outcome = "empty"
       THEN UNCHANGED <<walletAddress, balancePending, status>>
     ELSE IF outcome = "accounts"
       THEN /\ walletAddress' = "kaspa:wallet"
            /\ balancePending' = TRUE
            /\ status' = status
     ELSE /\ status' = "Connection failed"
          /\ UNCHANGED <<walletAddress, balancePending>>
  /\ UNCHANGED <<sceneVars, hookVars, panelVars, configVars, isWalletDetected, polling, detectTimeout, kasware, addressPending, coordinatorAddress, isFunding, pendingSends, sends, refreshTimers>>

\* connectWallet after kasware.getBalance() has settled: the balance is
\* stored and the status cleared, or the catch reports the failure.
BalanceSettled(ok) ==
  /\ balancePending
  /\ balancePending' = FALSE
  /\ status' = (IF ok THEN "" ELSE "Connection failed")
  /\ UNCHANGED <<sceneVars, hookVars, panelVars, configVars, isWalletDetected, polling, detectTimeout, kasware, addressPending, coordinatorAddress, walletAddress, isFunding, pendingSends, sends, refreshTimers>>

\* fundCoordinator with a fund button that is never disabled.
fundCoordinatorAlwaysEnabled ==
  /\ walletAddress # NoAddress
  /\ sends < MaxFundings
  /\ IF coordinatorAddress = NoAddress \/ ~kasware
       THEN UNCHANGED <<isFunding, status, pendingSends, sends>>
     ELSE /\ isFunding' = TRUE
          /\ status' = "Initiating transaction..."
          /\ pendingSends' = pendingSends + 1
          /\ sends' = sends + 1
  /\ UNCHANGED <<sceneVars, hookVars, panelVars, configVars, isWalletDetected, polling, detectTimeout, kasware, addressPending, coordinatorAddress, walletAddress, balancePending, refreshTimers>>

\* A click on the fund button, fundCoordinator up to its await: the button
\* is rendered once walletAddress is set and is disabled while isFunding or
\* without coordinatorAddress; the click event flushes setIsFunding(true)
\* before the next click is dispatched.
fundCoordinator ==
  /\ walletAddress # NoAddress
  /\ ~(isFunding \/ coordinatorAddress = NoAddress)
  /\ sends < MaxFundings
  /\ IF coordinatorAddress = NoAddress \/ ~kasware
       THEN UNCHANGED <<isFunding, status, pendingSends, sends>>
     ELSE /\ isFunding' = TRUE
          /\ status' = "Initiating transaction..."
          /\ pendingSends' = pendingSends + 1
          /\ sends' = sends + 1
  /\ UNCHANGED <<sceneVars, hookVars, panelVars, configVars, isWalletDetected, polling, detectTimeout, kasware, addressPending, coordinatorAddress, walletAddress, balancePending, refreshTimers>>

\* What kasware.sendKaspa settles with: a transaction hash, a value that has
\* no slice method (txHash.slice throws inside the try), a rejection with an
\* Error, or a rejection with null (err.message throws inside the catch).
SendOutcomes == {"hash", "noSlice", "rejected", "rejectedNull"}

\* fundCoordinator after its await: try, catch and finally.
SendSettled(outcome) ==
  /\ pendingSends > 0
  /\ pendingSends' = pendingSends - 1
  /\ status' = (CASE outcome = "hash" -> "Sent! Tx"
                  [] outcome = "rejectedNull" -> status
                  [] OTHER -> "Failed")
  /\ refreshTimers' = (IF outcome = "hash" THEN refreshTimers + 1 ELSE refreshTimers)
  /\ isFunding' = FALSE
  /\ UNCHANGED <<sceneVars, hookVars, panelVars, configVars, isWalletDetected, polling, detectTimeout, kasware, addressPending, coordinatorAddress, walletAddress, balancePending, sends>>

\* The "Refresh balances" timeout fires 5 s after a send: the balances are
\* read again.
RefreshBalances ==
  /\ refreshTimers > 0
  /\ refreshTimers' = refreshTimers - 1
  /\ UNCHANGED <<sceneVars, hookVars, panelVars, configVars, isWalletDetected, polling, detectTimeout, kasware, addressPending, coordinatorAddress, walletAddress, balancePending, isFunding, status, pendingSends, sends>>

\* The wallet runs: the extension appears, the address arrives or not, the
\* user connects and funds, the wallet answers.
NextWallet ==
  \/ InjectWallet
  \/ checkWallet
  \/ DetectionTimeout
  \/ \E ok \in BOOLEAN : AddressSettled(ok)
  \/ \E outcome \in {"accounts", "empty", "rejected"} : connectWallet(outcome)
  \/ \E ok \in BOOLEAN : BalanceSettled(ok)
  \/ fundCoordinator
  \/ \E outcome \in SendOutcomes : SendSettled(outcome)
  \/ RefreshBalances

\* ------------------------------------------------------------ utils/config
\* A URL is the sequence of the pieces of its text that the patterns of
\* getWsUrl and getApiBase tell apart; "" is the empty sequence.
EmptyString == <<>>
Schemes == {<<"http">>, <<"http", "s">>, <<"ws">>, <<"ws", "s">>}
Hosts == {"host"}
Tails == {<<>>, <<"/">>, <<"/", "ws">>, <<"/", "ws", "/">>}
ConfiguredUrls ==
  {scheme \o <<"://", host>> \o tail : scheme \in Schemes, host \in Hosts, tail \in Tails}
Locations == {[protocol |-> p, host |-> "localhost"] : p \in {"http:", "https:"}}

\* str.replace(/^piece/, by)
ReplaceStart(str, piece, by) ==
  IF Len(str) >= 1 /\ str[1] = piece THEN <<by>> \o Tail(str) ELSE str

\* str.endsWith(end), for an end of two pieces
EndsWith(str, end) ==
  Len(str) >= Len(end) /\ SubSeq(str, Len(str) - Len(end) + 1, Len(str)) = end

\* str.replace(/end$/, '')
RemoveEnd(str, end) ==
  IF EndsWith(str, end) THEN SubSeq(str, 1, Len(str) - Len(end)) ELSE str

\* a || b on strings: the empty string is falsy.
OrElse(a, b) == IF a # EmptyString THEN a ELSE b

getWsUrl(wsEnv, apiEnv, loc) ==
  LET envUrl == OrElse(wsEnv, apiEnv)
      converted == ReplaceStart(envUrl, "http", "ws")
  IN  IF envUrl # EmptyString
        THEN IF ~EndsWith(converted, <<"/", "ws">>)
               THEN RemoveEnd(converted, <<"/">>) \o <<"/", "ws">>
             ELSE converted
      ELSE (IF loc.protocol = "https:" THEN <<"ws", "s">> ELSE <<"ws">>)
             \o <<"://", loc.host, "/", "ws">>

getApiBase(wsEnv, apiEnv, loc) ==
  LET wsUrl == getWsUrl(wsEnv, apiEnv, loc)
  IN  IF wsEnv = EmptyString /\ apiEnv = EmptyString THEN EmptyString
      ELSE RemoveEnd(ReplaceStart(wsUrl, "ws", "http"), <<"/", "ws">>)

\* The module as evaluated on a page served over http with no URL
\* configured.
InitApp ==
  /\ envWsUrl = EmptyString
  /\ envApiUrl = EmptyString
  /\ location = [protocol |-> "http:", host |-> "localhost"]
  /\ WS_URL = getWsUrl(EmptyString, EmptyString, [protocol |-> "http:", host |-> "localhost"])
  /\ API_BASE = EmptyString
  /\ InitWallet

\* export const WS_URL = getWsUrl(); export const API_BASE = getApiBase();
LoadConfig ==
  /\ WS_URL = EmptyString
  /\ WS_URL' = getWsUrl(envWsUrl, envApiUrl, location)
  /\ API_BASE' = getApiBase(envWsUrl, envApiUrl, location)
  /\ UNCHANGED <<sceneVars, hookVars, panelVars, walletVars, envWsUrl, envApiUrl, location>>

\* ----------------------------------------------------------------- actions
\* useWebSocket and ControlPanel as constructed (the initial values of
\* their state and refs), no request in flight.
InitOuter ==
  /\ removals = <<>>
  /\ hookMounted = FALSE
  /\ swarmData = NoData
  /\ isConnected = FALSE
  /\ sockets = [n \in {} |-> ""]
  /\ wsRef = 0
  /\ timers = [t \in {} |-> 0]
  /\ reconnectTimeoutRef = 0
  /\ hookMounts = 0
  /\ isPaused = FALSE
  /\ showTaskForm = FALSE
  /\ showAgentForm = FALSE
  /\ minInterval = 5
  /\ maxInterval = 15
  /\ message = ""
  /\ toastTimers = <<>>
  /\ requests = <<>>

\* SwarmVisualization after its first mount.
InitComponent ==
  /\ swarmAgents = NoData
  /\ agentMeshes = [id \in {} |-> Null]
  /\ meshCount = 0
  /\ transactionEdges = <<>>
  /\ sceneLines = {}
  /\ edgeSets = [k \in KeySet |-> 0]
  /\ selectedAgent = NoSel
  /\ selSame = FALSE
  /\ picked = NoClick
  /\ now = 0
  /\ mounted = TRUE
  /\ sceneRef = 1
  /\ listeners = {<<"click", 1>>, <<"resize", 1>>}
  /\ frameLoops = {1}
  /\ markers = [id \in {} |-> 0]
  /\ undisposed = RendererResources
  /\ sceneAgents = {}
  /\ uncaught = "none"
  /\ innerWidth = WideWindow
  /\ canvases = [n \in {1} |-> WideWindow]

Init ==
  /\ InitComponent
  /\ InitOuter
  /\ InitApp

\* Deliver with the two effects in the other order: the events are ingested
\* against the registry as it was, then the agents are reconciled.
DeliverIngestFirst(snap) ==
  LET rec == Reconcile(agentMeshes, meshCount, snap.agents, selectedAgent, now)
      ing == Ingest(transactionEdges, sceneLines, edgeSets, snap.transactions, agentMeshes, now)
  IN  /\ mounted
      /\ Len(ing.edges) <= MaxEdges
      /\ swarmAgents' = snap.agents
      /\ agentMeshes' = rec.meshes
      /\ meshCount' = rec.count
      /\ transactionEdges' = ing.edges
      /\ sceneLines' = ing.scene
      /\ edgeSets' = ing.sets
      /\ selSame' = (selSame /\ selectedAgent # NoSel
                       /\ selectedAgent.agent_id \notin ProcessedIds(snap.agents))
      /\ mounted' = ~rec.threw
      /\ markers' = StartMarkers(markers, transactionEdges, ing.edges)
      /\ LifeAfterEffects(rec.threw, "reconcile",
                          (IF rec.count > meshCount THEN AgentResources ELSE {})
                            \cup (IF Len(ing.edges) > Len(transactionEdges) THEN EdgeResources ELSE {}))
      /\ UNCHANGED <<selectedAgent, picked, now, restVars>>

\* The transport delivers a snapshot: the component re-renders with the new
\* swarmData (a freshly parsed object, so both dependency lists changed) and
\* its effects run in order, "Update agents" and then "Update
\* transaction edges".  An effect that throws skips the effects after it and
\* unmounts the tree (App has no error boundary).
Deliver(snap) ==
  LET rec == Reconcile(agentMeshes, meshCount, snap.agents, selectedAgent, now)
      ing == IF rec.threw
               THEN [edges |-> transactionEdges, scene |-> sceneLines, sets |-> edgeSets]
             ELSE Ingest(transactionEdges, sceneLines, edgeSets, snap.transactions, rec.meshes, now)
  IN  /\ mounted
      /\ Len(ing.edges) <= MaxEdges
      /\ swarmAgents' = snap.agents
      /\ agentMeshes' = rec.meshes
      /\ meshCount' = rec.count
      /\ transactionEdges' = ing.edges
      /\ sceneLines' = ing.scene
      /\ edgeSets' = ing.sets
      /\ selSame' = (selSame /\ selectedAgent # NoSel
                       /\ selectedAgent.agent_id \notin ProcessedIds(snap.agents))
      /\ mounted' = ~rec.threw
      /\ markers' = StartMarkers(markers, transactionEdges, ing.edges)
      /\ LifeAfterEffects(rec.threw, "reconcile",
                          (IF rec.count > meshCount THEN AgentResources ELSE {})
                            \cup (IF Len(ing.edges) > Len(transactionEdges) THEN EdgeResources ELSE {}))
      /\ UNCHANGED <<selectedAgent, picked, now, restVars>>

\* handleClick without its else branch: a miss leaves the selection alone.
PickKeepsOnMiss(hit) ==
  LET newSel == IF hit = NoHit THEN selectedAgent ELSE agentMeshes[hit].agentData
      changed == hit # NoHit /\ ~(IsSelected(selectedAgent, hit) /\ selSame)
      rec == IF changed THEN Reconcile(agentMeshes, meshCount, swarmAgents, newSel, now)
             ELSE [meshes |-> agentMeshes, count |-> meshCount, threw |-> FALSE]
  IN  /\ mounted
      /\ selectedAgent' = newSel
      /\ selSame' = (IF hit = NoHit THEN selSame ELSE TRUE)
      /\ picked' = hit
      /\ agentMeshes' = rec.meshes
      /\ meshCount' = rec.count
      /\ mounted' = ~rec.threw
      /\ LifeAfterEffects(rec.threw, "reconcile",
                          IF rec.count > meshCount THEN AgentResources ELSE {})
      /\ UNCHANGED <<swarmAgents, transactionEdges, sceneLines, edgeSets, now, markers, restVars>>

\* The body of handleClick after the ray is cast: hit is intersects[0].object,
\* or NoHit when intersects is empty; an object that carries no agentData
\* changes nothing.  setSelectedAgent with a new value re-renders and re-runs
\* "Update agents" on the current swarmData; with the same value nothing
\* re-runs.
Pick(hit) ==
  LET hasData == hit \in DOMAIN agentMeshes
      newSel == IF hit = NoHit THEN NoSel
                ELSE IF hasData THEN agentMeshes[hit].agentData
                ELSE selectedAgent
      changed == IF hit = NoHit THEN selectedAgent # NoSel
                 ELSE hasData /\ ~(IsSelected(selectedAgent, hit) /\ selSame)
      rec == IF changed THEN Reconcile(agentMeshes, meshCount, swarmAgents, newSel, now)
             ELSE [meshes |-> agentMeshes, count |-> meshCount, threw |-> FALSE]
  IN  /\ mounted
      /\ selectedAgent' = newSel
      /\ selSame' = (IF hit = NoHit THEN FALSE ELSE IF hasData THEN TRUE ELSE selSame)
      /\ picked' = hit
      /\ agentMeshes' = rec.meshes
      /\ meshCount' = rec.count
      /\ mounted' = ~rec.threw
      /\ LifeAfterEffects(rec.threw, "reconcile",
                          IF rec.count > meshCount THEN AgentResources ELSE {})
      /\ UNCHANGED <<swarmAgents, transactionEdges, sceneLines, edgeSets, now, markers, restVars>>

\* What lies under the pointer, nearest first: the mesh of a registered
\* agent (named by its identifier), the ring or the label of an agent, the
\* tube of an edge, a traveling marker.
OtherObjects == {"ring", "label", "tube", "marker"}

Pointers(meshes) ==
  {<<>>} \cup {<<o>> : o \in OtherObjects \cup DOMAIN meshes}
         \cup {<<o, id>> : o \in OtherObjects, id \in DOMAIN meshes}

\* intersectObjects over everything in the scene, children included.
IntersectWholeScene(under, meshes) == under

\* raycasterRef.current.intersectObjects(Object.values(agentMeshesRef.current)
\* .filter(m => m), false): of what the ray meets, the objects of the list,
\* nearest first; their children are not tested.
IntersectObjects(under, meshes) == SelectSeq(under, LAMBDA o : o \in DOMAIN meshes)

\* handleClick.
handleClick(under) ==
  LET intersects == IntersectObjects(under, agentMeshes)
  IN  Pick(IF Len(intersects) > 0 THEN intersects[1] ELSE NoHit)

\* The terminate button of the info panel, shown while an agent is selected:
\* after confirm() the remove-agent request for the selected agent is sent.
Terminate(confirmed) ==
  /\ mounted
  /\ selectedAgent # NoSel
  /\ Len(removals) < MaxRemovals
  /\ removals' = (IF confirmed THEN Append(removals, selectedAgent.agent_id) ELSE removals)
  /\ UNCHANGED <<swarmAgents, agentMeshes, meshCount, transactionEdges, sceneLines, edgeSets, selectedAgent, selSame, picked, now, mounted, lifeVars, markers, hookVars, panelVars, appVars>>

\* RemoveSettled that also deletes the agent's mesh from the registry.
RemoveSettledDeletes(k, ok) ==
  /\ k \in 1..Len(removals)
  /\ removals' = RemoveAt(removals, k)
  /\ selectedAgent' = (IF ok /\ mounted THEN NoSel ELSE selectedAgent)
  /\ selSame' = (IF ok /\ mounted THEN FALSE ELSE selSame)
  /\ agentMeshes' = [id \in DOMAIN agentMeshes \ {removals[k]} |-> agentMeshes[id]]
  /\ UNCHANGED <<swarmAgents, meshCount, transactionEdges, sceneLines, edgeSets, picked, now, mounted, lifeVars, markers, hookVars, panelVars, appVars>>

\* The fetch of a remove-agent request settles.  When it resolves (whatever
\* the HTTP status) the handler goes on to setSelectedAgent(null), which
\* re-runs "Update agents" if an agent was selected; when it rejects the
\* handler ends there.  A state update of an unmounted component is dropped.
RemoveSettled(k, ok) ==
  LET changed == ok /\ mounted /\ selectedAgent # NoSel
      rec == IF changed THEN Reconcile(agentMeshes, meshCount, swarmAgents, NoSel, now)
             ELSE [meshes |-> agentMeshes, count |-> meshCount, threw |-> FALSE]
  IN  /\ k \in 1..Len(removals)
      /\ removals' = RemoveAt(removals, k)
      /\ selectedAgent' = (IF changed THEN NoSel ELSE selectedAgent)
      /\ selSame' = (IF changed THEN FALSE ELSE selSame)
      /\ agentMeshes' = rec.meshes
      /\ meshCount' = rec.count
      /\ mounted' = (mounted /\ ~rec.threw)
      /\ LifeAfterEffects(rec.threw, "reconcile",
                          IF rec.count > meshCount THEN AgentResources ELSE {})
      /\ UNCHANGED <<swarmAgents, transactionEdges, sceneLines, edgeSets, picked, now, markers, hookVars, panelVars, appVars>>

\* animate: one frame of a pending loop; the next one is requested at its
\* top.  The camera is a function of Date.now() alone.
Tick ==
  /\ frameLoops # {}
  /\ transactionEdges' = Sweep(transactionEdges, sceneLines, now).edges
  /\ sceneLines' = Sweep(transactionEdges, sceneLines, now).scene
  /\ UNCHANGED <<swarmAgents, agentMeshes, meshCount, edgeSets, selectedAgent, selSame, picked, now, mounted, lifeVars, markers, restVars>>

\* Time passes.
Advance ==
  /\ now + TimeStep <= MaxTime
  /\ now' = now + TimeStep
  /\ UNCHANGED <<swarmAgents, agentMeshes, meshCount, transactionEdges, sceneLines, edgeSets, selectedAgent, selSame, picked, mounted, lifeVars, markers, restVars>>

\* Initialize with the resize listener registered and the frame loop started
\* before the renderer is constructed.
InitializeLoopFirst(ok) ==
  LET n == sceneRef + 1
      sw == Sweep(transactionEdges, sceneLines, now)
  IN  /\ ~mounted
      /\ uncaught = "none"
      /\ swarmAgents = NoData
      /\ sceneRef < MaxScenes
      /\ mounted' = ok
      /\ sceneRef' = (IF ok THEN n ELSE sceneRef)
      /\ listeners' = (IF ok THEN listeners \cup {<<"click", n>>, <<"resize", n>>}
                       ELSE listeners \cup {<<"resize", n>>})
      /\ frameLoops' = frameLoops \cup {n}
      /\ undisposed' = (IF ok THEN undisposed \cup RendererResources ELSE undisposed)
      /\ sceneAgents' = (IF ok THEN {} ELSE sceneAgents)
      /\ uncaught' = (IF ok THEN uncaught ELSE "initialize")
      /\ canvases' = (IF ok THEN [k \in DOMAIN canvases \cup {n} |->
                                   IF k = n THEN innerWidth ELSE canvases[k]]
                      ELSE canvases)
      /\ innerWidth' = innerWidth
      /\ transactionEdges' = sw.edges
      /\ sceneLines' = sw.scene
      /\ UNCHANGED <<swarmAgents, agentMeshes, meshCount, edgeSets, selectedAgent, selSame, picked, now, markers, restVars>>

\* The "Initialize scene once" effect of a mount; ok tells whether the
\* WebGL context can be acquired.  containerRef.current is the div the
\* component always renders.  new THREE.WebGLRenderer throws when there is no
\* context: nothing after it runs, the error escapes the effect and the tree
\* unmounts.  Otherwise the refs are stored, the click listener is registered,
\* animate() draws the first frame and requests the next, and the resize
\* listener is registered.  The effects after it find swarmData null.  A
\* second mount of the same component instance is the remount React makes
\* right after the first commit in strict mode.
Initialize(ok) ==
  LET n == sceneRef + 1
      sw == Sweep(transactionEdges, sceneLines, now)
  IN  /\ ~mounted
      /\ uncaught = "none"
      /\ swarmAgents = NoData
      /\ sceneRef < MaxScenes
      /\ mounted' = ok
      /\ sceneRef' = (IF ok THEN n ELSE sceneRef)
      /\ listeners' = (IF ok THEN listeners \cup {<<"click", n>>, <<"resize", n>>} ELSE listeners)
      /\ frameLoops' = (IF ok THEN frameLoops \cup {n} ELSE frameLoops)
      /\ undisposed' = (IF ok THEN undisposed \cup RendererResources ELSE undisposed)
      /\ sceneAgents' = (IF ok THEN {} ELSE sceneAgents)
      /\ uncaught' = (IF ok THEN uncaught ELSE "initialize")
      /\ canvases' = (IF ok THEN [k \in DOMAIN canvases \cup {n} |->
                                   IF k = n THEN innerWidth ELSE canvases[k]]
                      ELSE canvases)
      /\ innerWidth' = innerWidth
      /\ transactionEdges' = (IF ok THEN sw.edges ELSE transactionEdges)
      /\ sceneLines' = (IF ok THEN sw.scene ELSE sceneLines)
      /\ UNCHANGED <<swarmAgents, agentMeshes, meshCount, edgeSets, selectedAgent, selSame, picked, now, markers, restVars>>

\* Teardown that leaves the pending frame request alone.
TeardownKeepsLoop ==
  /\ mounted
  /\ mounted' = FALSE
  /\ listeners' = CleanupListeners(listeners, sceneRef)
  /\ canvases' = CleanupCanvases(canvases, sceneRef)
  /\ UNCHANGED <<swarmAgents, agentMeshes, meshCount, transactionEdges, sceneLines, edgeSets, selectedAgent, selSame, picked, now, sceneRef, frameLoops, undisposed, uncaught, innerWidth, sceneAgents, markers, restVars>>

\* Teardown that leaves the canvas in the container.
TeardownKeepsCanvas ==
  /\ mounted
  /\ mounted' = FALSE
  /\ listeners' = CleanupListeners(listeners, sceneRef)
  /\ frameLoops' = CleanupLoops(frameLoops, sceneRef)
  /\ UNCHANGED <<swarmAgents, agentMeshes, meshCount, transactionEdges, sceneLines, edgeSets, selectedAgent, selSame, picked, now, sceneRef, undisposed, uncaught, canvases, innerWidth, sceneAgents, markers, restVars>>

\* The component unmounts: the cleanup of the scene effect runs.
Teardown ==
  /\ mounted
  /\ mounted' = FALSE
  /\ listeners' = CleanupListeners(listeners, sceneRef)
  /\ frameLoops' = CleanupLoops(frameLoops, sceneRef)
  /\ canvases' = CleanupCanvases(canvases, sceneRef)
  /\ UNCHANGED <<swarmAgents, agentMeshes, meshCount, transactionEdges, sceneLines, edgeSets, selectedAgent, selSame, picked, now, sceneRef, undisposed, uncaught, innerWidth, sceneAgents, markers, restVars>>

\* The effects of the mounted component run again on the same instance,
\* refs and state kept: React runs the cleanup of the scene effect and then
\* "Initialize scene once", "Update agents" and "Update transaction edges"
\* in order, with the swarmData of the last render (Fast Refresh of the dev
\* server does this when the module is hot-updated, whatever the dependency
\* lists say).  transactions is swarmData.transactions of that render.  The
\* cleanup leaves agentMeshesRef and transactionEdgesRef as they are; the new
\* scene starts empty, its first frame sweeps the tracked list, and the two
\* effects after it add to the new scene what they construct.
Refresh(ok, transactions) ==
  LET n == sceneRef + 1
      sw == Sweep(transactionEdges, {}, now)
      rec == IF ok THEN Reconcile(agentMeshes, meshCount, swarmAgents, selectedAgent, now)
             ELSE [meshes |-> agentMeshes, count |-> meshCount, threw |-> FALSE]
      ing == IF ok /\ ~rec.threw /\ swarmAgents # NoData
               THEN Ingest(sw.edges, sw.scene, edgeSets, transactions, rec.meshes, now)
             ELSE [edges |-> sw.edges, scene |-> sw.scene, sets |-> edgeSets]
      alive == ok /\ ~rec.threw
  IN  /\ mounted
      /\ sceneRef < MaxScenes
      /\ Len(ing.edges) <= MaxEdges
      /\ mounted' = alive
      /\ sceneRef' = (IF ok THEN n ELSE sceneRef)
      /\ listeners' = CleanupListeners(listeners, sceneRef)
                         \cup (IF alive THEN {<<"click", n>>, <<"resize", n>>} ELSE {})
      /\ frameLoops' = CleanupLoops(frameLoops, sceneRef) \cup (IF alive THEN {n} ELSE {})
      /\ canvases' = (IF alive
                        THEN [k \in (DOMAIN canvases \ {sceneRef}) \cup {n} |->
                                IF k = n THEN innerWidth ELSE canvases[k]]
                      ELSE CleanupCanvases(canvases, sceneRef))
      /\ undisposed' = (IF ok
                          THEN undisposed \cup RendererResources
                                 \cup (IF rec.count > meshCount THEN AgentResources ELSE {})
                                 \cup (IF Len(ing.edges) > Len(sw.edges) THEN EdgeResources ELSE {})
                        ELSE undisposed)
      /\ uncaught' = (IF ~ok THEN "initialize" ELSE IF rec.threw THEN "reconcile" ELSE uncaught)
      /\ sceneAgents' = (IF ok THEN (meshCount + 1)..rec.count ELSE sceneAgents)
      /\ agentMeshes' = rec.meshes
      /\ meshCount' = rec.count
      /\ transactionEdges' = (IF ok THEN ing.edges ELSE transactionEdges)
      /\ sceneLines' = (IF ok THEN ing.scene ELSE sceneLines)
      /\ edgeSets' = ing.sets
      /\ markers' = (IF ok THEN StartMarkers(markers, sw.edges, ing.edges) ELSE markers)
      /\ UNCHANGED <<swarmAgents, selectedAgent, selSame, picked, now, innerWidth, restVars>>

\* handleResize: the window has taken another width; every registered
\* resize listener sets the size of the renderer of its closure.
Resize(width) ==
  /\ width # innerWidth
  /\ innerWidth' = width
  /\ canvases' = [n \in DOMAIN canvases |->
                    IF <<"resize", n>> \in listeners THEN width ELSE canvases[n]]
  /\ UNCHANGED <<swarmAgents, agentMeshes, meshCount, transactionEdges, sceneLines, edgeSets, selectedAgent, selSame, picked, now, mounted, sceneRef, listeners, frameLoops, undisposed, uncaught, sceneAgents, markers, restVars>>

\* animateParticle, called back by requestAnimationFrame: while progress < 1
\* it adds 0.02, moves the marker and requests the next call; otherwise it
\* removes the marker from the scene.  The MarkerSteps-th addition is the
\* first that leaves progress >= 1.  Nothing cancels the request.
MarkerStep(id) ==
  /\ id \in DOMAIN markers
  /\ markers' = (IF markers[id] < MarkerSteps
                   THEN [markers EXCEPT ![id] = @ + 1]
                 ELSE [k \in DOMAIN markers \ {id} |-> markers[k]])
  /\ UNCHANGED <<swarmAgents, agentMeshes, meshCount, transactionEdges, sceneLines, edgeSets, selectedAgent, selSame, picked, now, mounted, lifeVars, restVars>>

\* ------------------------------------------------------------ useWebSocket
\* The data of two snapshots, as the backend sends them.
SnapA == [agents |-> Roster(<<"c1">>, <<"s1">>, {}), transactions |-> <<>>]
SnapB == [agents |-> Roster(<<>>, <<"s1">>, {}), transactions |-> <<AnnouncementC1>>]

\* event.data of the messages a socket receives.
RawMessages ==
  { "{\"type\":\"swarm_update\",\"data\":A}",
    "{\"type\":\"initial_state\",\"data\":B}",
    "{\"type\":\"swarm_update\"}",
    "{\"type\":\"task_update\",\"data\":A}",
    "null",
    "swarm_update" }

\* JSON.parse(event.data): the value, or a SyntaxError.
JSONParse(raw) ==
  CASE raw = "{\"type\":\"swarm_update\",\"data\":A}" ->
         [threw |-> FALSE, value |-> [type |-> "swarm_update", data |-> SnapA]]
    [] raw = "{\"type\":\"initial_state\",\"data\":B}" ->
         [threw |-> FALSE, value |-> [type |-> "initial_state", data |-> SnapB]]
    [] raw = "{\"type\":\"swarm_update\"}" ->
         [threw |-> FALSE, value |-> [type |-> "swarm_update", data |-> Missing]]
    [] raw = "{\"type\":\"task_update\",\"data\":A}" ->
         [threw |-> FALSE, value |-> [type |-> "task_update", data |-> SnapA]]
    [] raw = "null" -> [threw |-> FALSE, value |-> Null]
    [] OTHER -> [threw |-> TRUE, value |-> Null]

\* ws.onmessage storing the data of a message of any type.
OnMessageAnyType(raw, current) ==
  LET parsed == JSONParse(raw)
  IN  IF parsed.threw \/ parsed.value = Null THEN current ELSE parsed.value.data

\* ws.onmessage: the swarmData after the message, given the current one.  A
\* SyntaxError of JSON.parse and the TypeError of reading the type of null
\* are caught and logged.
OnMessage(raw, current) ==
  LET parsed == JSONParse(raw)
  IN  IF parsed.threw \/ parsed.value = Null THEN current
      ELSE IF parsed.value.type = "swarm_update" \/ parsed.value.type = "initial_state"
        THEN parsed.value.data
      ELSE current

\* The smallest number not in use.
FreeId(used) == CHOOSE n \in 1..(Cardinality(used) + 1) : n \notin used

\* connect(): ok tells whether new WebSocket(WS_URL) returns a socket (in
\* readyState CONNECTING, stored in wsRef.current with its handlers); when it
\* throws, the error is caught and logged and nothing else happens.
Connect(ok) ==
  LET n == FreeId(DOMAIN sockets)
  IN  /\ sockets' = (IF ok THEN [k \in DOMAIN sockets \cup {n} |->
                                   IF k = n THEN "connecting" ELSE sockets[k]]
                     ELSE sockets)
      /\ wsRef' = (IF ok THEN n ELSE wsRef)

\* The effect of the hook runs: connect().  A second run is the remount of
\* strict mode; state and refs are kept.
HookMount(ok) ==
  /\ ~hookMounted
  /\ hookMounts < MaxMounts
  /\ hookMounted' = TRUE
  /\ hookMounts' = hookMounts + 1
  /\ Connect(ok)
  /\ UNCHANGED <<sceneVars, appVars, panelVars, swarmData, isConnected, timers, reconnectTimeoutRef>>

\* ws.onopen.  A state update of an unmounted hook is dropped.
SocketOpen(n) ==
  /\ n \in DOMAIN sockets
  /\ sockets[n] = "connecting"
  /\ sockets' = [sockets EXCEPT ![n] = "open"]
  /\ isConnected' = (IF hookMounted THEN TRUE ELSE isConnected)
  /\ UNCHANGED <<sceneVars, appVars, panelVars, hookMounted, swarmData, wsRef, timers, reconnectTimeoutRef, hookMounts>>

\* ws.onmessage on an open socket.
SocketMessage(n, raw) ==
  /\ n \in DOMAIN sockets
  /\ sockets[n] = "open"
  /\ swarmData' = (IF hookMounted THEN OnMessage(raw, swarmData) ELSE swarmData)
  /\ UNCHANGED <<sceneVars, appVars, panelVars, hookMounted, isConnected, sockets, wsRef, timers, reconnectTimeoutRef, hookMounts>>

\* SocketClose with the reconnect timer set only if none is pending.
SocketCloseOneTimer(n) ==
  LET t == FreeId(DOMAIN timers)
  IN  /\ n \in DOMAIN sockets
      /\ sockets' = [k \in DOMAIN sockets \ {n} |-> sockets[k]]
      /\ isConnected' = (IF hookMounted THEN FALSE ELSE isConnected)
      /\ timers' = (IF DOMAIN timers = {}
                      THEN [k \in {t} |-> ReconnectDelay]
                    ELSE timers)
      /\ reconnectTimeoutRef' = (IF DOMAIN timers = {} THEN t ELSE reconnectTimeoutRef)
      /\ UNCHANGED <<sceneVars, appVars, panelVars, hookMounted, swarmData, wsRef, hookMounts>>

\* ws.onclose: the connection attempt failed, the open connection was lost,
\* or the closing handshake completed (ws.onerror before it only logs).
\* setIsConnected(false), and the reconnect timer is set and stored.
SocketClose(n) ==
  LET t == FreeId(DOMAIN timers)
  IN  /\ n \in DOMAIN sockets
      /\ sockets' = [k \in DOMAIN sockets \ {n} |-> sockets[k]]
      /\ isConnected' = (IF hookMounted THEN FALSE ELSE isConnected)
      /\ timers' = [k \in DOMAIN timers \cup {t} |->
                      IF k = t THEN ReconnectDelay ELSE timers[k]]
      /\ reconnectTimeoutRef' = t
      /\ UNCHANGED <<sceneVars, appVars, panelVars, hookMounted, swarmData, wsRef, hookMounts>>

\* A reconnect timer is due: connect().
TimerFire(t, ok) ==
  /\ t \in DOMAIN timers
  /\ timers[t] = 0
  /\ timers' = [k \in DOMAIN timers \ {t} |-> timers[k]]
  /\ Connect(ok)
  /\ UNCHANGED <<sceneVars, appVars, panelVars, hookMounted, swarmData, isConnected, reconnectTimeoutRef, hookMounts>>

\* The cleanup of the hook's effect: wsRef.current.close() (a socket that is
\* connecting or open goes to CLOSING, its close event comes later) and
\* clearTimeout(reconnectTimeoutRef.current).
HookUnmount ==
  /\ hookMounted
  /\ hookMounted' = FALSE
  /\ sockets' = (IF wsRef \in DOMAIN sockets THEN [sockets EXCEPT ![wsRef] = "closing"]
                 ELSE sockets)
  /\ timers' = [k \in DOMAIN timers \ {reconnectTimeoutRef} |-> timers[k]]
  /\ UNCHANGED <<sceneVars, appVars, panelVars, swarmData, isConnected, wsRef, reconnectTimeoutRef, hookMounts>>

\* Time passes, TimeStep at a time, while no timer is due: the timers of the
\* hook and of the control panel run down.  Neither reads the clock.
Elapse ==
  LET Left(ms) == IF ms > TimeStep THEN ms - TimeStep ELSE 0
  IN  /\ \A t \in DOMAIN timers : timers[t] > 0
      /\ \A i \in 1..Len(toastTimers) : toastTimers[i] > 0
      /\ DOMAIN timers # {} \/ toastTimers # <<>>
      /\ timers' = [t \in DOMAIN timers |-> Left(timers[t])]
      /\ toastTimers' = [i \in 1..Len(toastTimers) |-> Left(toastTimers[i])]
      /\ UNCHANGED <<sceneVars, appVars, hookMounted, swarmData, isConnected, sockets, wsRef, reconnectTimeoutRef, hookMounts, isPaused, showTaskForm, showAgentForm, minInterval, maxInterval, message, requests>>

\* ------------------------------------------------------------ ControlPanel
\* The values the two sliders are moved to.
MinIntervals == {5, 15}
MaxIntervals == {5, 15}

\* How a request ends: a JSON body with status "success", the body the
\* documentation gives for the endpoint, an HTTP error status with a JSON
\* body, or a rejected fetch (or a body that is not JSON).
Outcomes == {"success", "documented", "other", "error"}

\* The response bodies of the documentation's "API Response Examples".
DocumentedBodies ==
  [kind \in {"pause", "create-task", "frequency"} |->
     IF kind = "pause" THEN [status |-> "paused"]
     ELSE IF kind = "create-task"
       THEN [success |-> TRUE, task_id |-> 42,
             description |-> "Find largest prime less than 8000", reward |-> 3000]
     ELSE [status |-> "updated", min |-> 2, max |-> 8]]

\* What `await fetch(...)` and `await response.json()` give a handler:
\* whether one of them threw, the response's ok flag and the parsed body.
Response(kind, outcome) ==
  [rejected |-> outcome = "error",
   ok |-> outcome \in {"success", "documented"},
   data |-> IF outcome = "success" THEN [status |-> "success", task_id |-> 42]
            ELSE IF outcome = "documented" THEN DocumentedBodies[kind]
            ELSE IF outcome = "other" THEN [detail |-> "Internal Server Error"]
            ELSE Null]

\* data.status === 'success'
StatusIsSuccess(data) == "status" \in DOMAIN data /\ data.status = "success"

\* fetch(...): the request joins those in flight; a frequency request
\* carries the two intervals.
Send(kind) ==
  /\ Len(requests) < MaxRequests
  /\ requests' = Append(requests,
                        [kind |-> kind,
                         min |-> IF kind = "frequency" THEN minInterval ELSE 0,
                         max |-> IF kind = "frequency" THEN maxInterval ELSE 0])

\* showMessage: the toast is set and its clear-timer started.
ShowMessage(msg) ==
  /\ message' = msg
  /\ toastTimers' = Append(toastTimers, ToastDelay)

\* handlePauseResume up to its fetch; the button is disabled while
\* disconnected.
PauseResume ==
  /\ isConnected
  /\ Send(IF isPaused THEN "resume" ELSE "pause")
  /\ UNCHANGED <<sceneVars, appVars, hookVars, isPaused, showTaskForm, showAgentForm, minInterval, maxInterval, message, toastTimers>>

\* The "Create Task" button (disabled while disconnected) toggles the form.
ToggleTaskForm ==
  /\ isConnected
  /\ showTaskForm' = ~showTaskForm
  /\ UNCHANGED <<sceneVars, appVars, hookVars, isPaused, showAgentForm, minInterval, maxInterval, message, toastTimers, requests>>

\* handleAddAgent; the button is disabled while disconnected.
AddAgent ==
  /\ isConnected
  /\ showAgentForm' = TRUE
  /\ showTaskForm' = FALSE
  /\ UNCHANGED <<sceneVars, appVars, hookVars, isPaused, minInterval, maxInterval, message, toastTimers, requests>>

\* The Cancel buttons of the two forms.
CancelForm(form) ==
  /\ IF form = "task" THEN showTaskForm ELSE showAgentForm
  /\ showTaskForm' = (IF form = "task" THEN FALSE ELSE showTaskForm)
  /\ showAgentForm' = (IF form = "agent" THEN FALSE ELSE showAgentForm)
  /\ UNCHANGED <<sceneVars, appVars, hookVars, isPaused, minInterval, maxInterval, message, toastTimers, requests>>

\* handleCreateTask up to its fetch: the form is submitted (its fields hold
\* valid values from the start); the form is rendered whenever showTaskForm
\* is set and its submit button is never disabled.
SubmitTask ==
  /\ showTaskForm
  /\ Send("create-task")
  /\ UNCHANGED <<sceneVars, appVars, hookVars, isPaused, showTaskForm, showAgentForm, minInterval, maxInterval, message, toastTimers>>

\* handleSubmitAgent up to its fetch, likewise.
SubmitAgent ==
  /\ showAgentForm
  /\ Send("add-agent")
  /\ UNCHANGED <<sceneVars, appVars, hookVars, isPaused, showTaskForm, showAgentForm, minInterval, maxInterval, message, toastTimers>>

\* The sliders (disabled while disconnected).
SetInterval(which, v) ==
  /\ isConnected
  /\ minInterval' = (IF which = "min" THEN v ELSE minInterval)
  /\ maxInterval' = (IF which = "max" THEN v ELSE maxInterval)
  /\ UNCHANGED <<sceneVars, appVars, hookVars, isPaused, showTaskForm, showAgentForm, message, toastTimers, requests>>

\* handleUpdateFrequency behind a button that is disabled only while
\* disconnected.
ApplyFrequencyUnvalidated ==
  /\ isConnected
  /\ Send("frequency")
  /\ UNCHANGED <<sceneVars, appVars, hookVars, isPaused, showTaskForm, showAgentForm, minInterval, maxInterval, message, toastTimers>>

\* handleUpdateFrequency up to its fetch; the button is disabled while
\* disconnected or while minInterval >= maxInterval.
ApplyFrequency ==
  /\ isConnected
  /\ minInterval < maxInterval
  /\ Send("frequency")
  /\ UNCHANGED <<sceneVars, appVars, hookVars, isPaused, showTaskForm, showAgentForm, minInterval, maxInterval, message, toastTimers>>

\* handleReset without the test of confirm(): the request is sent whatever
\* the dialog returned.
ResetWithoutDialog(confirmed) ==
  /\ isConnected
  /\ Send("reset")
  /\ UNCHANGED <<sceneVars, appVars, hookVars, isPaused, showTaskForm, showAgentForm, minInterval, maxInterval, message, toastTimers>>

\* handleReset up to its fetch; the button is disabled while disconnected,
\* and declining the confirm() dialog returns at once.
Reset(confirmed) ==
  /\ isConnected
  /\ IF confirmed THEN Send("reset") ELSE UNCHANGED requests
  /\ UNCHANGED <<sceneVars, appVars, hookVars, isPaused, showTaskForm, showAgentForm, minInterval, maxInterval, message, toastTimers>>

\* The rest of a handler, after its fetch has settled.  The isPaused a
\* pause/resume handler flips is that of the render it belongs to: false for
\* a pause request, true for a resume request.
Respond(k, outcome) ==
  LET req == requests[k]
      toggles == req.kind \in {"pause", "resume"}
      response == Response(req.kind, outcome)
      success == StatusIsSuccess(response.data)
  IN  /\ k \in 1..Len(requests)
      /\ outcome = "documented" => req.kind \in DOMAIN DocumentedBodies
      /\ Len(toastTimers) < MaxToasts
      /\ requests' = RemoveAt(requests, k)
      /\ ShowMessage(
           IF response.rejected THEN "Error"
           ELSE IF req.kind = "pause" THEN "Swarm paused"
           ELSE IF req.kind = "resume" THEN "Swarm resumed"
           ELSE IF req.kind = "frequency" THEN "Frequency updated"
           ELSE IF req.kind = "reset" THEN "Swarm reset!"
           ELSE IF req.kind = "add-agent"
             THEN (IF success THEN "Agent spawned!" ELSE "Failed to add agent")
           ELSE (IF success THEN "Task created!" ELSE "Unknown error"))
      /\ isPaused' = (IF response.rejected THEN isPaused
                      ELSE IF toggles THEN req.kind = "pause"
                      ELSE IF req.kind = "reset" THEN FALSE
                      ELSE isPaused)
      /\ showTaskForm' = (IF req.kind = "create-task" /\ ~response.rejected /\ success THEN FALSE
                          ELSE showTaskForm)
      /\ showAgentForm' = (IF req.kind = "add-agent" /\ ~response.rejected /\ success THEN FALSE
                           ELSE showAgentForm)
      /\ UNCHANGED <<sceneVars, appVars, hookVars, minInterval, maxInterval>>

\* A clear-timer of showMessage is due: setMessage('').
ToastFire(i) ==
  /\ i \in 1..Len(toastTimers)
  /\ toastTimers[i] = 0
  /\ toastTimers' = RemoveAt(toastTimers, i)
  /\ message' = ""
  /\ UNCHANGED <<sceneVars, appVars, hookVars, isPaused, showTaskForm, showAgentForm, minInterval, maxInterval, requests>>

\* The roster runs: rosters grow, shrink and reorder, agents are picked,
\* frames are drawn; the clock stands still.
Next ==
  \/ \E snap \in AgentSnapshots : Deliver(snap)
  \/ \E hit \in DOMAIN agentMeshes \cup {NoHit} : Pick(hit)
  \/ Tick

Spec == Init /\ [][Next]_vars

\* The event runs: every event list over a few rosters, frames and time.
NextEdges ==
  \/ \E snap \in EdgeSnapshots : Deliver(snap)
  \/ Tick
  \/ Advance

SpecEdges == Init /\ [][NextEdges]_vars

\* The frame loop keeps running while the component is mounted:
\* requestAnimationFrame(animate) is re-armed at the top of every frame.
SpecEdgesFair == SpecEdges /\ WF_vars(Tick)

\* The selection runs: rosters with and without events, clicks on whatever
\* is under the pointer, terminate requests and their outcomes, frames; the
\* clock stands still.
SelectSnapshots ==
  { [agents |-> Roster(<<"c1">>, <<"s1">>, {"c1"}), transactions |-> <<AnnouncementC1>>],
    [agents |-> Roster(<<"c2", "c1">>, <<"s1">>, {}), transactions |-> <<>>],
    [agents |-> Roster(<<>>, <<"s1">>, {}), transactions |-> <<>>],
    [agents |-> Missing, transactions |-> <<AnnouncementC1>>] }

NextSelect ==
  \/ \E snap \in SelectSnapshots : Deliver(snap)
  \/ \E under \in Pointers(agentMeshes) : handleClick(under)
  \/ \E confirmed \in BOOLEAN : Terminate(confirmed)
  \/ \E k \in 1..Len(removals), ok \in BOOLEAN : RemoveSettled(k, ok)
  \/ Tick

SpecSelect == Init /\ [][NextSelect]_vars

\* The frame runs: snapshots with and without events arrive, agents are
\* clicked, the window is resized, frames are drawn and time passes.
FrameSnapshots ==
  { [agents |-> Roster(<<"c1">>, <<"s1", "s2">>, {}), transactions |-> <<AnnouncementC1>>],
    [agents |-> Roster(<<"c1">>, <<"s1">>, {"s1"}), transactions |-> <<>>] }

NextFrame ==
  \/ \E snap \in FrameSnapshots : Deliver(snap)
  \/ \E under \in Pointers(agentMeshes) : handleClick(under)
  \/ \E width \in Widths : Resize(width)
  \/ Tick
  \/ Advance

SpecFrame == Init /\ [][NextFrame]_vars

\* The runs with events that cannot be drawn yet: every snapshot carries the
\* announcement and the submission of c1; the roster is absent, or has s1
\* alone (the sender has no mesh), or has c1 alone (no solver and no other
\* coordinator to draw to), or has the targets of both events.
SubmissionC1 == [from |-> "c1", msg_type |-> "solution_submission", timestamp |-> 101]

SkipSnapshots ==
  {[agents |-> a, transactions |-> <<AnnouncementC1, SubmissionC1>>] :
     a \in {Missing, Roster(<<>>, <<"s1">>, {}), Roster(<<"c1">>, <<>>, {}),
            Roster(<<"c2", "c1">>, <<"s1">>, {})}}

NextSkip ==
  \/ \E snap \in SkipSnapshots : Deliver(snap)
  \/ Tick
  \/ Advance

SpecSkip == Init /\ [][NextSkip]_vars

\* The runs in which the effects of the mounted component run again: every
\* snapshot carries the announcement of c1, so that is the event list of
\* the last render once a snapshot has arrived.
RefreshEvents == <<AnnouncementC1>>

RefreshSnapshots ==
  {[agents |-> a, transactions |-> RefreshEvents] :
     a \in {Roster(<<"c1">>, <<"s1">>, {}), Roster(<<"c1", "c2">>, <<"s1">>, {})}}

NextRefresh ==
  \/ \E snap \in RefreshSnapshots : Deliver(snap)
  \/ \E ok \in BOOLEAN : Refresh(ok, RefreshEvents)
  \/ Tick
  \/ Advance

SpecRefresh == Init /\ [][NextRefresh]_vars

\* The display runs: the snapshots of c1 carry or lack each display field,
\* s1 comes and goes, agents are clicked and frames are drawn.
VisualSnapshots ==
  {[agents |-> [coordinators |-> <<a>>, solvers |-> ss, notIterable |-> {}],
    transactions |-> <<>>] :
     a \in AgentVariants("c1"), ss \in {<<>>, <<Agent("s1", 1)>>}}

NextVisuals ==
  \/ \E snap \in VisualSnapshots : Deliver(snap)
  \/ \E hit \in DOMAIN agentMeshes \cup {NoHit} : Pick(hit)
  \/ Tick

SpecVisuals == Init /\ [][NextVisuals]_vars

\* The configuration runs: the build sets neither, one or both of the two
\* variables, the page is served over http or https, and the module is
\* evaluated.
InitConfig ==
  /\ InitComponent
  /\ InitOuter
  /\ envWsUrl \in ConfiguredUrls \cup {EmptyString}
  /\ envApiUrl \in ConfiguredUrls \cup {EmptyString}
  /\ location \in Locations
  /\ WS_URL = EmptyString
  /\ API_BASE = EmptyString
  /\ InitWallet

NextConfig == LoadConfig

SpecConfig == InitConfig /\ [][NextConfig]_vars

SpecWallet == Init /\ [][NextWallet]_vars

\* The lifecycle runs: the component mounts (the context is acquired or
\* not), snapshots arrive, frames are drawn, markers travel, time passes and
\* the component unmounts.
InitScene ==
  /\ swarmAgents = NoData
  /\ agentMeshes = [id \in {} |-> Null]
  /\ meshCount = 0
  /\ transactionEdges = <<>>
  /\ sceneLines = {}
  /\ edgeSets = [k \in KeySet |-> 0]
  /\ selectedAgent = NoSel
  /\ selSame = FALSE
  /\ picked = NoClick
  /\ now = 0
  /\ mounted = FALSE
  /\ sceneRef = 0
  /\ listeners = {}
  /\ frameLoops = {}
  /\ markers = [id \in {} |-> 0]
  /\ undisposed = {}
  /\ sceneAgents = {}
  /\ uncaught = "none"
  /\ innerWidth = WideWindow
  /\ canvases = [n \in {} |-> WideWindow]
  /\ InitOuter
  /\ InitApp

SceneSnapshots ==
  { [agents |-> Roster(<<"c1">>, <<"s1">>, {}), transactions |-> <<AnnouncementC1>>],
    [agents |-> Roster(<<>>, <<"s1">>, {}), transactions |-> <<>>],
    [agents |-> Missing, transactions |-> <<AnnouncementC1>>],
    [agents |-> [coordinators |-> <<Agent("c1", 0), Null>>, solvers |-> <<>>, notIterable |-> {}],
     transactions |-> <<>>] }

NextScene ==
  \/ \E ok \in BOOLEAN : Initialize(ok)
  \/ Teardown
  \/ \E snap \in SceneSnapshots : Deliver(snap)
  \/ Tick
  \/ \E id \in DOMAIN markers : MarkerStep(id)
  \/ Advance

SpecScene == InitScene /\ [][NextScene]_vars

\* The transport runs: the hook mounts, sockets open, receive, fail and
\* close, timers run down and fire, the hook unmounts.
NextHook ==
  \/ \E ok \in BOOLEAN : HookMount(ok)
  \/ \E n \in DOMAIN sockets : SocketOpen(n)
  \/ \E n \in DOMAIN sockets, raw \in RawMessages : SocketMessage(n, raw)
  \/ \E n \in DOMAIN sockets : SocketClose(n)
  \/ \E t \in DOMAIN timers, ok \in BOOLEAN : TimerFire(t, ok)
  \/ HookUnmount
  \/ Elapse

SpecHook == Init /\ [][NextHook]_vars

\* The control runs: the connection comes and goes while the panel is used.
NextPanel ==
  \/ \E ok \in BOOLEAN : HookMount(ok)
  \/ \E n \in DOMAIN sockets : SocketOpen(n)
  \/ \E n \in DOMAIN sockets : SocketClose(n)
  \/ \E t \in DOMAIN timers, ok \in BOOLEAN : TimerFire(t, ok)
  \/ Elapse
  \/ PauseResume
  \/ ToggleTaskForm
  \/ AddAgent
  \/ \E form \in {"task", "agent"} : CancelForm(form)
  \/ SubmitTask
  \/ SubmitAgent
  \/ \E which \in {"min", "max"}, v \in MinIntervals \cup MaxIntervals : SetInterval(which, v)
  \/ ApplyFrequency
  \/ \E confirmed \in BOOLEAN : Reset(confirmed)
  \/ \E k \in 1..Len(requests), outcome \in Outcomes : Respond(k, outcome)
  \/ \E i \in 1..Len(toastTimers) : ToastFire(i)

SpecPanel == Init /\ [][NextPanel]_vars

\* ------------------------------------------------------------------ claims
\* The agents of the roster last rendered, as a set of identifiers.
RosterIds == ProcessedIds(swarmAgents)

HasRoster == swarmAgents # NoData /\ swarmAgents # Missing

\* C1: every identifier that has appeared keeps the one mesh constructed on
\* its first sighting: no step removes a registered identifier or changes
\* the mesh registered for it, a mesh is constructed exactly when an
\* identifier enters the registry, and so the meshes ever constructed are as
\* many as the registered identifiers and pairwise distinct.
C1_OneObjectPerAgent ==
  /\ [](/\ meshCount = Cardinality(DOMAIN agentMeshes)
        /\ \A a, b \in DOMAIN agentMeshes : agentMeshes[a].obj = agentMeshes[b].obj => a = b)
  /\ [][/\ \A id \in DOMAIN agentMeshes :
             id \in DOMAIN agentMeshes' /\ agentMeshes'[id].obj = agentMeshes[id].obj
        /\ meshCount' - meshCount = Cardinality(DOMAIN agentMeshes' \ DOMAIN agentMeshes)]_vars

\* Rosters have grown, shrunk and reordered: three meshes are registered, one
\* of an agent that has left the roster, and the roster lists a coordinator
\* ahead of one whose mesh is older.
C1_Witness ==
  /\ HasRoster
  /\ swarmAgents.notIterable = {}
  /\ meshCount = 3
  /\ DOMAIN agentMeshes \ RosterIds # {}
  /\ Len(swarmAgents.coordinators) = 2
  /\ Null \notin {swarmAgents.coordinators[i] : i \in 1..2}
  /\ agentMeshes[swarmAgents.coordinators[1].agent_id].obj
       > agentMeshes[swarmAgents.coordinators[2].agent_id].obj

\* C2: the position a mesh got at construction is the position it has after
\* every later step (reconcile, ingest, tick, pick).
C2_PositionFixed ==
  [][\A id \in DOMAIN agentMeshes :
       id \in DOMAIN agentMeshes' /\ agentMeshes'[id].position = agentMeshes[id].position]_vars

\* An agent of the current roster stands where the current roster would not
\* put it: its index or its group's size has changed since it was created.
C2_Witness ==
  /\ HasRoster
  /\ swarmAgents.notIterable = {}
  /\ Null \notin {swarmAgents.coordinators[i] : i \in 1..Len(swarmAgents.coordinators)}
  /\ Null \notin {swarmAgents.solvers[i] : i \in 1..Len(swarmAgents.solvers)}
  /\ \E id \in RosterIds :
       agentMeshes[id].position
         # AgentPosition(agentMeshes[id].agentData, swarmAgents.coordinators, swarmAgents.solvers)

\* C3: an event, identified by (sender, timestamp), has its set of animated
\* edges created at most once, however often it is delivered.
C3_AtMostOneEdgeSet == \A k \in KeySet : edgeSets[k] <= 1

\* A mesh carries the selection override: emissive intensity and ring
\* opacity both at the forced value 0.8 (the activity values stay below it).
CarriesOverride(id) ==
  agentMeshes[id].emissive = SelectedIntensity /\ agentMeshes[id].ring = SelectedIntensity

\* C4: at every instant at most one mesh carries the selection override, and
\* once a pick that selects a different agent has been processed the mesh of
\* the agent selected before no longer carries it.
C4_AtMostOneOverride ==
  /\ [](Cardinality({id \in DOMAIN agentMeshes : CarriesOverride(id)}) <= 1)
  /\ [][\A hit \in DOMAIN agentMeshes :
          (Pick(hit) /\ selectedAgent # NoSel /\ selectedAgent.agent_id # hit)
            => ~(agentMeshes'[selectedAgent.agent_id].emissive = SelectedIntensity
                 /\ agentMeshes'[selectedAgent.agent_id].ring = SelectedIntensity)]_vars

\* The identities of the tracked edges, and those among them past the TTL.
TrackedIds == {EdgeId(transactionEdges[i]) : i \in 1..Len(transactionEdges)}

ExpiredIds ==
  {EdgeId(transactionEdges[i]) : i \in {j \in 1..Len(transactionEdges) :
                                          now - transactionEdges[j].timestamp > maxAge}}

\* C5: a tracked edge is in the scene and leaves the list and the scene in
\* the same step, only when its age exceeds 3000 ms; an edge enters with the
\* current time as its creation time, so one that has left (its creation
\* time lies more than 3000 ms back) never enters again; and while frames
\* keep being drawn, tracked edges past 3000 ms are eventually all removed
\* (an edge past the TTL stays past it while tracked, so this removes each).
C5_RemovedOnceAfterTTL ==
  /\ [](TrackedIds = sceneLines /\ Cardinality(TrackedIds) = Len(transactionEdges))
  /\ [][/\ \A i \in 1..Len(transactionEdges) :
             EdgeId(transactionEdges[i]) \notin TrackedIds'
               => now - transactionEdges[i].timestamp > maxAge
        /\ \A i \in 1..Len(transactionEdges') :
             EdgeId(transactionEdges'[i]) \notin TrackedIds
               => transactionEdges'[i].timestamp = now'
        /\ now' >= now]_vars
  /\ (ExpiredIds # {}) ~> (ExpiredIds = {} \/ ~mounted)

\* The edges of an event have been created and, past their TTL, swept away,
\* while an edge that is exactly 3000 ms old is still tracked.
C5_Witness ==
  /\ \E k \in KeySet : edgeSets[k] >= 1 /\ \A id \in TrackedIds : <<id[1], id[3]>> # k
  /\ \E id \in TrackedIds : now - id[4] = maxAge

\* C6: from creation to removal the opacity of an edge never increases from
\* one state to the next, and when a frame has been drawn every tracked edge
\* that is at least 3000 ms old has opacity 0.
C6_OpacityFades ==
  [][/\ \A i \in 1..Len(transactionEdges), j \in 1..Len(transactionEdges') :
          EdgeId(transactionEdges[i]) = EdgeId(transactionEdges'[j])
            => transactionEdges'[j].opacity <= transactionEdges[i].opacity
     /\ Tick => \A j \in 1..Len(transactionEdges') :
                  now - transactionEdges'[j].timestamp >= maxAge
                    => transactionEdges'[j].opacity = 0]_vars

\* The edges a step has appended to the tracked list.
AppendedEdges ==
  IF Len(transactionEdges') >= Len(transactionEdges)
    THEN SubSeq(transactionEdges', Len(transactionEdges) + 1, Len(transactionEdges'))
    ELSE <<>>

\* The meshes an event is to reach, read off the registry: the solvers for
\* an announcement, otherwise the coordinators other than the sender.
ExpectedTargets(meshes, tx) ==
  IF tx.msg_type = "task_announcement"
    THEN {id \in DOMAIN meshes : meshes[id].agentData.role = "solver"}
    ELSE {id \in DOMAIN meshes : meshes[id].agentData.role = "coordinator"} \ {tx.from}

\* C7: when a snapshot is applied, each of its events that was not tracked
\* before and whose sender is registered gets exactly one new edge per
\* expected target, from the sender, and no other.
C7_OneEdgePerTarget ==
  [][\A txs \in TxLists :
       Deliver([agents |-> swarmAgents', transactions |-> txs]) =>
         \A n \in 1..Len(txs) :
           LET tx == txs[n]
               new == SelectSeq(AppendedEdges,
                                LAMBDA e : <<e.from, e.txTimestamp>> = TxKey(tx))
               expected == ExpectedTargets(agentMeshes', tx)
           IN  (~AlreadyExists(transactionEdges, tx) /\ tx.from \in DOMAIN agentMeshes')
                 => /\ {new[i].to : i \in 1..Len(new)} = expected
                    /\ Len(new) = Cardinality(expected)]_vars

\* The announcement of c1 has one tracked edge to each of the two registered
\* solvers, and an event that is not an announcement, sent by coordinator c1
\* with coordinator c2 registered, has its one edge, to c2.
C7_Witness ==
  /\ {"c1", "c2", "s1", "s2"} \subseteq DOMAIN agentMeshes
  /\ {id[2] : id \in {e \in TrackedIds : e[1] = "c1" /\ e[3] = 100000}} = {"s1", "s2"}
  /\ {id[2] : id \in {e \in TrackedIds : e[1] = "c1" /\ e[3] = 101000}} = {"c2"}

\* The entry of the roster last rendered that describes an agent.
RosterEntries ==
  IF HasRoster /\ swarmAgents.notIterable = {}
    THEN {swarmAgents.coordinators[i] : i \in 1..Len(swarmAgents.coordinators)}
           \cup {swarmAgents.solvers[i] : i \in 1..Len(swarmAgents.solvers)}
    ELSE {}

\* C8: a pick that hits the mesh of a registered agent selects the agent
\* data stored in that mesh, which for an agent of the current roster is its
\* entry in that roster; a pick that hits nothing clears the selection; the
\* selection stays what the last click made it; no pick throws (the
\* component stays mounted).
C8_PickSelects ==
  /\ [](/\ picked = NoHit => selectedAgent = NoSel
        /\ picked \in AgentIds => selectedAgent # NoSel /\ selectedAgent.agent_id = picked)
  /\ [][\A hit \in DOMAIN agentMeshes \cup {NoHit} :
          Pick(hit) =>
            /\ mounted'
            /\ hit # NoHit =>
                 /\ selectedAgent' = agentMeshes[hit].agentData
                 /\ hit \in RosterIds => selectedAgent' \in RosterEntries]_vars

\* A hit has selected an agent whose data a later snapshot had changed: the
\* selection is the current entry (one active task), taken from the mesh.
C8_Witness ==
  /\ picked \in AgentIds
  /\ selSame
  /\ selectedAgent.active_tasks = 1
  /\ selectedAgent \in RosterEntries
  /\ meshCount = 3

\* A snapshot's agents are structurally valid: present, both role lists
\* lists, no malformed entry.
StructurallyValid(agents) ==
  /\ agents # Missing
  /\ agents.notIterable = {}
  /\ \A i \in 1..Len(agents.coordinators) : agents.coordinators[i] # Null
  /\ \A i \in 1..Len(agents.solvers) : agents.solvers[i] # Null

\* C9: a reconcile pass over a structurally invalid snapshot leaves the
\* registry exactly as it was; over a valid one, every agent of the snapshot
\* is registered with the snapshot's data.
C9_AtomicReconcile ==
  [][\A snap \in AgentSnapshots :
       Deliver(snap) =>
         IF StructurallyValid(snap.agents)
           THEN \A id \in ProcessedIds(snap.agents) :
                  id \in DOMAIN agentMeshes' /\ agentMeshes'[id].agentData \in RosterEntries'
           ELSE agentMeshes' = agentMeshes /\ meshCount' = meshCount]_vars

\* The index and the group size of an agent in the roster of a snapshot.
GroupOf(agents, id) == IF id \in CoordinatorIds THEN agents.coordinators ELSE agents.solvers

\* C10 as stated: a mesh that enters the registry lies on the ring of its
\* role (15 coordinator, 25 solver) at the angle index / group size of a
\* full turn.
C10_AngleIsIndexOverSize ==
  [][\A id \in DOMAIN agentMeshes' \ DOMAIN agentMeshes :
       LET group == GroupOf(swarmAgents', id)
           pos == agentMeshes'[id].position
       IN  /\ pos.radius = (IF id \in CoordinatorIds THEN 15 ELSE 25)
           /\ pos.angle.num * Len(group) = FindIndex(group, id) * pos.angle.den]_vars

\* C10 as amended: the angle is index / group size of a full turn for a
\* coordinator and index / group size plus one eighth of a turn (PI / 4) for
\* a solver; a coordinator alone in its group is at angle 0.
C10_AngleWithSolverOffset ==
  [][\A id \in DOMAIN agentMeshes' \ DOMAIN agentMeshes :
       LET group == GroupOf(swarmAgents', id)
           n == Len(group)
           idx == FindIndex(group, id)
           eighths == IF id \in CoordinatorIds THEN 0 ELSE 1
           pos == agentMeshes'[id].position
       IN  /\ pos.radius = (IF id \in CoordinatorIds THEN 15 ELSE 25)
           /\ pos.angle.num * (8 * n) = ((8 * idx + n * eighths) % (8 * n)) * pos.angle.den
           /\ pos.angle.num < pos.angle.den
           /\ (id \in CoordinatorIds /\ n = 1) => pos.angle.num = 0]_vars

\* Meshes created at index 1 of 2 (a coordinator at half a turn) and at
\* index 0 of 1 (a coordinator at angle 0, a solver at an eighth of a turn).
C10_Witness ==
  /\ \E id \in DOMAIN agentMeshes \cap CoordinatorIds :
       agentMeshes[id].position = [radius |-> 15, angle |-> [num |-> 1, den |-> 2]]
  /\ \E id \in DOMAIN agentMeshes \cap CoordinatorIds :
       agentMeshes[id].position = [radius |-> 15, angle |-> [num |-> 0, den |-> 1]]
  /\ \E id \in DOMAIN agentMeshes \cap SolverIds :
       agentMeshes[id].position = [radius |-> 25, angle |-> [num |-> 1, den |-> 8]]

\* The scene effect has run and its cleanup has returned.
TornDown == ~mounted /\ sceneRef # 0

\* C11: after scene teardown returns, every listener registered by
\* initialize (click, resize) has been removed and every GPU resource
\* acquired (the renderer, the geometries, materials and textures of agents,
\* edges and markers) has been released.
C11_TeardownReleasesAll == TornDown => (listeners = {} /\ undisposed = {})

\* C12: after scene teardown, no marker animation step is scheduled (and so
\* none is executed): every pending animateParticle request was cancelled.
C12_TeardownCancelsMarkers == TornDown => DOMAIN markers = {}

\* C13: once scene teardown has started no frame begins: after the cleanup no
\* animate callback is pending, whether the last frame ran before it or was
\* still pending, and while the component stays unmounted no step sweeps the
\* tracked edges or changes the scene.
C13_NoFrameAfterTeardown ==
  /\ [](~mounted => frameLoops = {})
  /\ [][(~mounted /\ ~mounted') =>
          (transactionEdges' = transactionEdges /\ sceneLines' = sceneLines)]_vars

\* The component was torn down with a frame pending that had work to do: a
\* tracked edge is older than maxAge and still in the list and the scene.
C13_Witness ==
  /\ TornDown
  /\ uncaught = "none"
  /\ \E i \in 1..Len(transactionEdges) :
       /\ now - transactionEdges[i].timestamp > maxAge
       /\ EdgeId(transactionEdges[i]) \in sceneLines

\* C14: when a snapshot is applied, its agents are reconciled before its
\* events are ingested: an untracked event sent by an agent the snapshot
\* registers gets an edge to every target, an agent the snapshot registers
\* gets an edge from every untracked event it is a target of, and a
\* reconciliation that does not complete ingests nothing.
C14_ReconcileBeforeIngest ==
  [][\A snap \in SceneSnapshots :
       Deliver(snap) =>
         LET newIds == DOMAIN agentMeshes' \ DOMAIN agentMeshes
             EdgeTo(tx, id) ==
               \E i \in 1..Len(AppendedEdges) :
                 /\ AppendedEdges[i].from = tx.from
                 /\ AppendedEdges[i].to = id
                 /\ AppendedEdges[i].txTimestamp = tx.timestamp * 1000
         IN  /\ uncaught' # "none" => AppendedEdges = <<>>
             /\ uncaught' = "none" =>
                  \A n \in 1..Len(snap.transactions) :
                    LET tx == snap.transactions[n]
                        expected == ExpectedTargets(agentMeshes', tx)
                    IN  ~AlreadyExists(transactionEdges, tx) =>
                          /\ tx.from \in newIds => \A id \in expected : EdgeTo(tx, id)
                          /\ tx.from \in DOMAIN agentMeshes' =>
                               \A id \in expected \cap newIds : EdgeTo(tx, id)]_vars

\* The announcement of c1 has produced edges once, and its edge to s1 is
\* tracked: in these runs c1 is first listed by the snapshot that carries its
\* announcement, and s1, whose mesh is younger than that of c1, was first
\* listed by it too, so the sender and the target of the edge were registered
\* by the snapshot whose event created it.
C14_Witness ==
  /\ edgeSets[TxKey(AnnouncementC1)] = 1
  /\ \E i \in 1..Len(transactionEdges) :
       transactionEdges[i].from = "c1" /\ transactionEdges[i].to = "s1"
  /\ agentMeshes["c1"].obj = 1
  /\ agentMeshes["s1"].obj = 2

\* C15: the set of registered identifiers never shrinks: no step (reconcile,
\* ingest, frame, pick, terminate request or its outcome) removes an entry of
\* the registry, and an agent whose removal has been requested is still
\* registered.
C15_RegistryNeverShrinks ==
  /\ [](\A k \in 1..Len(removals) : removals[k] \in DOMAIN agentMeshes)
  /\ [][DOMAIN agentMeshes \subseteq DOMAIN agentMeshes']_vars

\* The removal of c1 has been requested twice, a later roster no longer
\* lists c1, and c1 is still registered.
C15_Witness ==
  /\ removals = <<"c1", "c1">>
  /\ HasRoster
  /\ "c1" \notin RosterIds
  /\ "c1" \in DOMAIN agentMeshes

\* C16: a pick only ever selects a registered agent: whatever lies under the
\* pointer, the object picked is the nearest mesh of the registry under it
\* (not an edge, a marker, a ring or a label in front of it), the selection
\* becomes that agent's data, and with no registered mesh under the pointer
\* the selection becomes empty.
C16_PickOnlyAgents ==
  /\ [](/\ picked \in DOMAIN agentMeshes \cup {NoHit, NoClick}
        /\ selectedAgent # NoSel => selectedAgent.agent_id \in DOMAIN agentMeshes)
  /\ [][\A under \in Pointers(agentMeshes) :
          handleClick(under) =>
            LET registered == SelectSeq(under, LAMBDA o : o \in DOMAIN agentMeshes)
            IN  IF registered = <<>>
                  THEN picked' = NoHit /\ selectedAgent' = NoSel
                  ELSE /\ picked' = registered[1]
                       /\ selectedAgent' = agentMeshes[registered[1]].agentData]_vars

\* An agent is selected, its edge and its marker are in the scene, and the
\* last click picked that agent: clicks with the tube or the marker in front
\* of its mesh are among the clicks that lead here.
C16_Witness ==
  /\ selectedAgent # NoSel
  /\ picked = selectedAgent.agent_id
  /\ \E i \in 1..Len(transactionEdges) :
       /\ transactionEdges[i].to = picked
       /\ EdgeId(transactionEdges[i]) \in SceneMarkers

\* C17: when the rendering context cannot be acquired during initialize, the
\* error escapes the effect and initialize is not run again: the component
\* stays unmounted, no frame loop is pending, no click or resize listener of
\* the failed run is registered, no renderer is held, and nothing that
\* happens afterwards adds to the registry or to the tracked edges.
C17_InitFailureIsFatal ==
  /\ [](uncaught = "initialize" =>
          /\ ~mounted
          /\ frameLoops = {}
          /\ listeners = {}
          /\ DOMAIN agentMeshes = {}
          /\ transactionEdges = <<>>)
  /\ [][uncaught = "initialize" =>
          /\ uncaught' = "initialize"
          /\ sceneRef' = sceneRef
          /\ undisposed' = undisposed
          /\ agentMeshes' = agentMeshes
          /\ transactionEdges' = transactionEdges]_vars

\* The first initialize failed (no scene was ever stored) and time has
\* passed since.
C17_Witness ==
  /\ uncaught = "initialize"
  /\ sceneRef = 0
  /\ now > 0

\* The messages of type swarm_update or initial_state and the data each
\* carries (undefined when it carries none).
UpdateData ==
  [raw \in { "{\"type\":\"swarm_update\",\"data\":A}",
             "{\"type\":\"initial_state\",\"data\":B}",
             "{\"type\":\"swarm_update\"}" } |->
     IF raw = "{\"type\":\"swarm_update\",\"data\":A}" THEN SnapA
     ELSE IF raw = "{\"type\":\"initial_state\",\"data\":B}" THEN SnapB
     ELSE Missing]

\* C18: the swarmData the mounted hook exposes is null or the data of one
\* message (never a merge of several); a message of type swarm_update or
\* initial_state replaces it by its data, and a message of another type or
\* one that does not parse leaves it as it is; no message changes the
\* connection flag.
C18_LatestDataOnly ==
  /\ [](swarmData \in {NoData, SnapA, SnapB, Missing})
  /\ [][\A n \in DOMAIN sockets, raw \in RawMessages :
          (hookMounted /\ SocketMessage(n, raw)) =>
            /\ isConnected' = isConnected
            /\ swarmData' = (IF raw \in DOMAIN UpdateData THEN UpdateData[raw] ELSE swarmData)]_vars

\* The mounted hook is connected through its first socket and exposes the
\* data of the initial_state message.
C18_Witness ==
  /\ hookMounted
  /\ isConnected
  /\ swarmData = SnapB
  /\ wsRef = 1
  /\ hookMounts = 1

\* C19, first half: while the hook is mounted, a close sets the connection
\* flag to false and sets exactly one reconnect timer of 3000 ms; a timer
\* that fires makes one connection attempt (at most one socket is added), and
\* no timer fires before its 3000 ms have run down.
CloseSetsOneTimer ==
  /\ [][\A n \in DOMAIN sockets :
          (hookMounted /\ SocketClose(n)) =>
            /\ ~isConnected'
            /\ Cardinality(DOMAIN timers') = Cardinality(DOMAIN timers) + 1
            /\ timers'[reconnectTimeoutRef'] = ReconnectDelay]_vars
  /\ [][\A t \in DOMAIN timers :
          (t \notin DOMAIN timers' /\ hookMounted') =>
            /\ timers[t] = 0
            /\ Cardinality(DOMAIN sockets') <= Cardinality(DOMAIN sockets) + 1]_vars

\* C19: while the hook is mounted it never stops trying: a socket is
\* connecting, open or closing, or a reconnect timer is pending.
C19_NeverStopsTrying ==
  hookMounted => (DOMAIN sockets # {} \/ DOMAIN timers # {})

\* C20: while the control panel is disconnected no control request is
\* issued: a step that puts a request in flight is taken with isConnected
\* true, also when the form it is submitted from was opened earlier.
C20_NoRequestWhileDisconnected ==
  [][Len(requests') > Len(requests) => isConnected]_vars

\* The request a reset puts in flight.
ResetRequest == [kind |-> "reset", min |-> 0, max |-> 0]

\* C21: a reset request is sent only after the confirm dialog has been
\* confirmed: a click on Reset whose dialog is declined sends no request and
\* leaves the paused flag, the toast and its timers as they are, a confirmed
\* one puts exactly one reset request in flight, and no other step puts a
\* reset request in flight.
C21_ResetOnlyWhenConfirmed ==
  /\ [][\A confirmed \in BOOLEAN :
          Reset(confirmed) =>
            IF confirmed
              THEN requests' = Append(requests, ResetRequest)
                   /\ UNCHANGED <<isPaused, message, toastTimers>>
              ELSE UNCHANGED <<requests, isPaused, message, toastTimers>>]_vars
  /\ [][(Len(requests') > Len(requests) /\ requests'[Len(requests')] = ResetRequest)
          => Reset(TRUE)]_vars

\* A confirmed reset is in flight behind another request, while the panel
\* is paused and connected.
C21_Witness ==
  /\ isConnected
  /\ isPaused
  /\ Len(requests) = 2
  /\ requests[2] = ResetRequest

\* C22: when a create-task request returns the documented success response
\* (success: true, task_id, description, reward), the panel shows the toast
\* "Task [id] created!" and closes the task form.
C22_DocumentedTaskResponse ==
  [][\A k \in 1..Len(requests) :
       (requests[k].kind = "create-task" /\ Respond(k, "documented")) =>
         /\ message' = "Task created!"
         /\ ~showTaskForm']_vars

\* C30: a pause/resume click sends 'pause' when the paused flag is false and
\* 'resume' when it is true; the flag changes only when the request has
\* succeeded, and when the request has failed (a rejected fetch, a body that
\* is not JSON, or an HTTP error status) the flag is unchanged and the error
\* toast is shown; a successful reset leaves the flag false.
C30_FlipOnlyOnSuccess ==
  /\ [][PauseResume =>
          requests' = Append(requests, [kind |-> IF isPaused THEN "resume" ELSE "pause",
                                        min |-> 0, max |-> 0])]_vars
  /\ [][\A k \in 1..Len(requests), outcome \in Outcomes :
          (requests[k].kind \in {"pause", "resume"} /\ Respond(k, outcome)) =>
            LET response == Response(requests[k].kind, outcome)
            IN  (response.rejected \/ ~response.ok) =>
                  /\ isPaused' = isPaused
                  /\ message' = "Error"]_vars
  /\ [][\A k \in 1..Len(requests), outcome \in Outcomes :
          (requests[k].kind = "reset" /\ Respond(k, outcome)
             /\ Response("reset", outcome).ok) => ~isPaused']_vars

\* C23: when the expiry sweep of a frame has finished, no edge older than
\* 3000 ms is left in the tracked list or in the scene, however many edges
\* expire in that frame.
C23_SweepRemovesAllExpired ==
  [][Tick =>
       /\ \A i \in 1..Len(transactionEdges') :
             now - transactionEdges'[i].timestamp <= maxAge
       /\ \A id \in sceneLines' : now - id[4] <= maxAge]_vars

\* C24: the expiry sweep of a frame is the only operation that removes
\* entries from the tracked list of edges: a step that removes one is a
\* frame, reconcile and ingestion keep the tracked list as a prefix of the
\* new one, and a click or a resize leaves the list as it is.
C24_OnlySweepRemoves ==
  /\ [][~(TrackedIds \subseteq TrackedIds') => Tick]_vars
  /\ [][(\E snap \in FrameSnapshots : Deliver(snap)) =>
          /\ Len(transactionEdges') >= Len(transactionEdges)
          /\ SubSeq(transactionEdges', 1, Len(transactionEdges)) = transactionEdges]_vars
  /\ [][((\E under \in Pointers(agentMeshes) : handleClick(under))
            \/ (\E width \in Widths : Resize(width))) =>
          transactionEdges' = transactionEdges]_vars

\* Two edges past their TTL are still tracked after a snapshot without
\* events was reconciled, an agent was selected and the window was resized.
C24_Witness ==
  /\ Len(transactionEdges) = 2
  /\ \A i \in 1..2 : now - transactionEdges[i].timestamp > maxAge
  /\ HasRoster /\ "s2" \notin RosterIds
  /\ selectedAgent # NoSel
  /\ innerWidth = NarrowWindow

\* The listeners registered for an event.
ListenersFor(event) == {l \in listeners : l[1] = event}

\* C29: over every sequence of mounts and unmounts at most one canvas is in
\* the document, at most one frame loop is pending and at most one click
\* and one resize listener are registered; a successful initialize adds
\* exactly the canvas, the loop and the two listeners of its scene, and no
\* other step adds any.
C29_OneSurfaceOneLoop ==
  /\ [](/\ Cardinality(DOMAIN canvases) <= 1
         /\ Cardinality(frameLoops) <= 1
         /\ Cardinality(ListenersFor("click")) <= 1
         /\ Cardinality(ListenersFor("resize")) <= 1)
  /\ [][Initialize(TRUE) =>
          /\ DOMAIN canvases' = DOMAIN canvases \cup {sceneRef'}
          /\ frameLoops' = frameLoops \cup {sceneRef'}
          /\ listeners' = listeners \cup {<<"click", sceneRef'>>, <<"resize", sceneRef'>>}
          /\ sceneRef' \notin DOMAIN canvases \cup frameLoops
          /\ undisposed' = undisposed \cup RendererResources]_vars
  /\ [][(~(DOMAIN canvases' \subseteq DOMAIN canvases)
            \/ ~(frameLoops' \subseteq frameLoops)
            \/ ~(listeners' \subseteq listeners)) => Initialize(TRUE)]_vars

\* The component was mounted, unmounted and mounted again: the canvas, the
\* loop and the listeners are those of the second scene.
C29_Witness ==
  /\ mounted
  /\ sceneRef = 2
  /\ DOMAIN canvases = {2}
  /\ frameLoops = {2}
  /\ listeners = {<<"click", 2>>, <<"resize", 2>>}

\* C25: the marker of an edge advances by one step of 0.02 per call from 0,
\* its progress stays within [0, 1] (0 to MarkerSteps steps), and the call
\* that finds the progress at 1 removes it from the scene whether or not its
\* edge is still tracked; once a marker is out of the scene it is not put
\* back and it advances no further.
C25_MarkerTravelsOnce ==
  /\ [](\A id \in DOMAIN markers : markers[id] \in 0..MarkerSteps)
  /\ [][\A id \in DOMAIN markers :
          MarkerStep(id) =>
            IF markers[id] < MarkerSteps
              THEN markers' = [markers EXCEPT ![id] = @ + 1]
              ELSE id \notin SceneMarkers']_vars
  /\ [][\A id \in DOMAIN markers :
          id \notin SceneMarkers =>
            /\ id \notin SceneMarkers'
            /\ id \in DOMAIN markers' => markers'[id] = markers[id]]_vars

\* C26: whenever an agent is selected and the pick has been processed, the
\* mesh registered for it has its emissive intensity and its ring opacity at
\* the override value, whatever its activity, and keeps them across every
\* later reconcile while it stays selected, also when the rosters gain or
\* lose agents.
C26_SelectedKeepsOverride ==
  (mounted /\ selectedAgent # NoSel) =>
    /\ selectedAgent.agent_id \in DOMAIN agentMeshes
    /\ CarriesOverride(selectedAgent.agent_id)

\* The agents the current snapshot lists.
ListedAgents ==
  IF HasRoster
    THEN {(swarmAgents.coordinators \o swarmAgents.solvers)[i] :
            i \in 1..Len(swarmAgents.coordinators \o swarmAgents.solvers)}
  ELSE {}

\* An absent field reads as its default: no active tasks, no status.
ActiveTasksOf(agent) == IF "active_tasks" \in DOMAIN agent THEN agent.active_tasks ELSE 0
StatusOf(agent) == IF "status" \in DOMAIN agent THEN agent.status ELSE "idle"

\* C27: after every reconcile pass each listed agent that is not selected is
\* shown Working (ring opacity and glow within the range of the pulse, the
\* ring visible) exactly when its active-task count is above 0 or its
\* status is 'working', and Idle (ring opacity 0, glow 0.1) otherwise; a
\* snapshot without the count or the status counts as not active, and no
\* error escapes the pass.
C27_WorkingIffActive ==
  /\ uncaught = "none"
  /\ (mounted /\ HasRoster) =>
       \A agent \in ListedAgents :
         ~IsSelected(selectedAgent, agent.agent_id) =>
           LET mesh == agentMeshes[agent.agent_id]
           IN  IF ActiveTasksOf(agent) > 0 \/ StatusOf(agent) = "working"
                 THEN mesh.ring \in 1..5 /\ mesh.emissive \in 2..6
               ELSE mesh.ring = 0 /\ mesh.emissive = 1

\* c1 is listed without an active-task count and with the status 'working'
\* and is shown Working, next to s1; neither is selected.
C27_Witness ==
  /\ mounted /\ HasRoster
  /\ selectedAgent = NoSel
  /\ \E agent \in ListedAgents :
       /\ agent.agent_id = "c1"
       /\ "active_tasks" \notin DOMAIN agent
       /\ StatusOf(agent) = "working"
       /\ agentMeshes["c1"].ring > 0
  /\ "s1" \in RosterIds

\* reputation / 100 clamped to [0.8, 2.0], in hundredths.
ClampedReputation(r) == IF r < 80 THEN 80 ELSE IF r > 200 THEN 200 ELSE r

\* The factor the last reconcile pass applied to the mesh of a listed agent
\* (the pulse of the scale is at its centre).
AppliedFactor(agent) == agentMeshes[agent.agent_id].scale

\* C28: for every listed agent with a numeric reputation r, 0 included, the
\* factor applied at reconcile is r / 100 clamped to [0.8, 2.0], so that it
\* never decreases as r grows; without a reputation the factor is 1.0.
C28_ReputationFactorClamped ==
  (mounted /\ HasRoster) =>
    \A agent \in ListedAgents :
      /\ AppliedFactor(agent) =
           (IF "reputation" \in DOMAIN agent THEN ClampedReputation(agent.reputation)
            ELSE 100)
      /\ \A other \in AgentVariants(agent.agent_id) :
           ("reputation" \in DOMAIN agent /\ "reputation" \in DOMAIN other
              /\ other.reputation <= agent.reputation)
             => ReputationScale(other) <= AppliedFactor(agent)

\* C31: a frequency request is only ever issued with its min interval
\* strictly below its max interval, whatever the sliders were moved to before
\* and after the click on Apply: every frequency request in flight carries
\* min < max, and the request a click puts in flight carries the values the
\* sliders show at the click.
C31_FrequencyMinBelowMax ==
  /\ [](\A k \in 1..Len(requests) :
           requests[k].kind = "frequency" => requests[k].min < requests[k].max)
  /\ [][ApplyFrequency =>
          /\ minInterval < maxInterval
          /\ requests' = Append(requests, [kind |-> "frequency",
                                            min |-> minInterval, max |-> maxInterval])]_vars

\* A frequency request is in flight while the sliders have since been
\* moved to equal values.
C31_Witness ==
  /\ \E k \in 1..Len(requests) : requests[k].kind = "frequency"
  /\ minInterval = maxInterval

\* The URL the build configures: VITE_WS_URL, or VITE_API_URL without it.
ConfiguredUrl == OrElse(envWsUrl, envApiUrl)

\* Whether the scheme of a configured URL is a secure one; the host follows
\* the scheme and "://".
IsSecure(url) == url[2] = "s"

\* C32: for a configured URL http(s)://host or ws(s)://host, with or
\* without a trailing slash and with or without a trailing /ws segment,
\* WS_URL is the ws(s) URL of that host ending in exactly one /ws segment,
\* getWsUrl maps it to itself, and API_BASE is the http(s) URL of that host
\* without the /ws segment; with no URL configured API_BASE is the empty
\* string.
C32_UrlsNormalized ==
  WS_URL # EmptyString =>
    IF ConfiguredUrl = EmptyString
      THEN API_BASE = EmptyString
    ELSE LET secure == IF IsSecure(ConfiguredUrl) THEN <<"s">> ELSE <<>>
             address == <<"://", ConfiguredUrl[Len(secure) + 3]>>
         IN  /\ WS_URL = <<"ws">> \o secure \o address \o <<"/", "ws">>
             /\ getWsUrl(WS_URL, EmptyString, location) = WS_URL
             /\ API_BASE = <<"http">> \o secure \o address

\* The hook was mounted and its cleanup has run.
HookUnmounted == ~hookMounted /\ hookMounts > 0

\* C33: once the hook is unmounted no reconnect timer is pending and no
\* WebSocket is opened, whenever the close event of the socket the cleanup
\* closed arrives.
C33_NothingAfterUnmount ==
  /\ [](HookUnmounted => DOMAIN timers = {})
  /\ [][(HookUnmounted /\ ~hookMounted') => DOMAIN sockets' \subseteq DOMAIN sockets]_vars

\* The sockets that are connecting or open.
LiveSockets == {n \in DOMAIN sockets : sockets[n] \in {"connecting", "open"}}

\* C34: while the hook is mounted at most one WebSocket is connecting or
\* open and at most one reconnect timer is pending, and the connection flag
\* is true only while the socket of wsRef.current is open.
C34_OneSocketOneTimer ==
  hookMounted =>
    /\ Cardinality(LiveSockets) <= 1
    /\ Cardinality(DOMAIN timers) <= 1
    /\ isConnected => (wsRef \in DOMAIN sockets /\ sockets[wsRef] = "open")

\* C35: a toast stays for its full 3000 ms unless a newer one replaces it:
\* when a clear-timer empties the toast, the timer of the message shown (the
\* one started last) has run down too.
C35_ToastStaysFullDelay ==
  [][\A i \in 1..Len(toastTimers) :
       (ToastFire(i) /\ message # "") => toastTimers[Len(toastTimers)] = 0]_vars

\* C36: no two registered meshes of the same role are at the same position,
\* in whatever order and at whatever times the agents joined their role
\* group.
C36_DistinctPositions ==
  \A a \in DOMAIN agentMeshes, b \in DOMAIN agentMeshes :
    (a # b /\ agentMeshes[a].role = agentMeshes[b].role)
      => agentMeshes[a].position # agentMeshes[b].position

\* C37: while an agent is selected, the AgentSnapshot shown in the info
\* panel is the one most recently reconciled for that agent (the agent data
\* its mesh holds): a later snapshot that changes the agent's fields shows
\* in the selection.
C37_SelectionFollowsSnapshots ==
  (mounted /\ selectedAgent # NoSel) =>
    selectedAgent = agentMeshes[selectedAgent.agent_id].agentData

\* C38: an untracked event of a delivered snapshot whose sender has no
\* registered mesh, or that has no target mesh, puts no edge in the tracking
\* list, no tube and no marker in the scene, and is still untracked
\* afterwards; a snapshot whose events are all skipped or already tracked
\* leaves the tracking list as it was; and an untracked event whose sender
\* and targets are registered gets an edge to every target.
C38_SkippedEventStaysEligible ==
  [][\A snap \in SkipSnapshots :
       Deliver(snap) =>
         LET txs == snap.transactions
             Untracked(tx) == ~AlreadyExists(transactionEdges, tx)
             Undrawable(tx) == \/ tx.from \notin DOMAIN agentMeshes'
                               \/ TargetMeshes(agentMeshes', tx) = <<>>
             OfEvent(id, tx) == <<id[1], id[3]>> = TxKey(tx)
         IN  /\ \A k \in 1..Len(txs) :
                  (Untracked(txs[k]) /\ Undrawable(txs[k])) =>
                    /\ ~AlreadyExists(transactionEdges', txs[k])
                    /\ \A id \in sceneLines' \ sceneLines : ~OfEvent(id, txs[k])
                    /\ \A id \in DOMAIN markers' \ DOMAIN markers : ~OfEvent(id, txs[k])
             /\ (\A k \in 1..Len(txs) : ~Untracked(txs[k]) \/ Undrawable(txs[k]))
                  => transactionEdges' = transactionEdges
             /\ \A k \in 1..Len(txs) :
                  (Untracked(txs[k]) /\ ~Undrawable(txs[k]) /\ mounted') =>
                    LET targets == TargetMeshes(agentMeshes', txs[k])
                    IN  \A j \in 1..Len(targets) :
                          \E i \in 1..Len(transactionEdges') :
                            /\ EdgeId(transactionEdges'[i])
                                 = <<txs[k].from, targets[j], txs[k].timestamp * 1000, now>>
                            /\ EdgeId(transactionEdges'[i]) \in sceneLines'
                            /\ EdgeId(transactionEdges'[i]) \in DOMAIN markers']_vars

\* Both events were delivered while c1 was alone in the registry (c1 is the
\* first mesh constructed, and every snapshot of these runs carries both
\* events), and after c2 and s1 were registered a later snapshot drew them:
\* the announcement to s1 and the submission to c2.
C38_Witness ==
  /\ "c1" \in DOMAIN agentMeshes /\ agentMeshes["c1"].obj = 1
  /\ {"c2", "s1"} \subseteq DOMAIN agentMeshes
  /\ \E i, j \in 1..Len(transactionEdges) :
       /\ transactionEdges[i].from = "c1" /\ transactionEdges[i].to = "s1"
       /\ transactionEdges[i].txTimestamp = 100000
       /\ transactionEdges[j].from = "c1" /\ transactionEdges[j].to = "c2"
       /\ transactionEdges[j].txTimestamp = 101000

\* C39: while the component is mounted, every mesh in the agent registry is
\* in the scene that is being rendered and every tracked edge has its tube
\* in that scene, also after the scene effect was cleaned up and run again.
C39_AttachedToLiveScene ==
  mounted =>
    /\ \A id \in DOMAIN agentMeshes : agentMeshes[id].obj \in sceneAgents
    /\ \A i \in 1..Len(transactionEdges) : EdgeId(transactionEdges[i]) \in sceneLines

\* C40: at most one kasware.sendKaspa call is in flight at any time, a call
\* is in flight exactly while isFunding is true, a funding attempt starts
\* only while isFunding is false, and when the wallet call settles, with a
\* hash or with a failure, isFunding is false again.
C40_OneFundingInFlight ==
  /\ [](pendingSends <= 1)
  /\ [](isFunding <=> pendingSends = 1)
  /\ [][sends' > sends => (~isFunding /\ isFunding')]_vars
  /\ [][\A outcome \in SendOutcomes : SendSettled(outcome) => ~isFunding']_vars

\* Three funding attempts were made: one was sent (its refresh is pending),
\* the last one failed, and none is in flight.
C40_Witness ==
  /\ sends = MaxFundings
  /\ refreshTimers >= 1
  /\ status = "Failed"
  /\ ~isFunding
  /\ pendingSends = 0

====
